---- MODULE Spec2Model ----
(***************************************************************************)
(* A model of the wif crate: the typed codec of the weaving interchange    *)
(* format (src/src/lib.rs, wif.rs, wifparse.rs, wif/wif_sections.rs).      *)
(*                                                                         *)
(* Text is a sequence of tokens.  A token is one character wherever the    *)
(* code looks at characters (digits, '+', '-', ',', '.', ' '), and a whole *)
(* word where the code only compares or copies it ("true", "Yes").         *)
(* Option<T> is a sequence of length 0 (None) or 1 (Some); Result<T> is a  *)
(* record with the field ok.                                               *)
(***************************************************************************)
EXTENDS Integers, Sequences, FiniteSets, TLC

\* ini:    the raw map parse works on (None when the document was built directly)
\* wif:    the document (None before there is one)
\* before: the document as it was when build_or_validate_liftplan was called
\* res:    the result of the last parse or build_or_validate_liftplan
\* steps:  the sections the last parse called read on, in order
\* out:    the map Wif::write built
\* res2:   the result of parsing the written text again
\* query:  the last query and its outcome
\* pc:     what has been done so far
VARIABLES ini, wif, before, res, steps, out, res2, query, pc

vars == <<ini, wif, before, res, steps, out, res2, query, pc>>

-----------------------------------------------------------------------------
(* Option and Result                                                       *)

None == <<>>

Some(v) == <<v>>

IsSome(o) == Len(o) = 1

IsNone(o) == Len(o) = 0

Ok(v) == [ok |-> TRUE, val |-> v]

Err(e) == [ok |-> FALSE, err |-> e]

\* Result::map: the value of an Ok is mapped, an Err is kept.
map_ok(r, F(_)) == IF r.ok THEN Ok(F(r.val)) ELSE r

\* Result::map_err with a constant error.
map_err(r, e) == IF r.ok THEN r ELSE Err(e)

\* The `?` operator followed by the rest of the function: an Err is returned at
\* once, the value of an Ok is handed on.
and_then(r, F(_)) == IF r.ok THEN F(r.val) ELSE r

\* Option::ok_or_else.
ok_or_else(o, e) == IF IsNone(o) THEN Err(e) ELSE Ok(o[1])

\* Option::unwrap_or.
unwrap_or(o, d) == IF IsNone(o) THEN d ELSE o[1]

\* Option::map(f).transpose(): None is Ok(None), Some(x) is f(x) with its value
\* wrapped in Some.
map_transpose(o, F(_)) == IF IsNone(o) THEN Ok(None) ELSE map_ok(F(o[1]), Some)

\* Iterator::collect into a Result: the first Err, or the values in order.
collect(rs) ==
    IF \E i \in DOMAIN rs : ~rs[i].ok
    THEN rs[CHOOSE i \in DOMAIN rs : ~rs[i].ok /\ \A j \in 1..(i - 1) : rs[j].ok]
    ELSE Ok([i \in DOMAIN rs |-> rs[i].val])

-----------------------------------------------------------------------------
(* Text helpers of the standard library, as the code uses them             *)

Digit == {"0", "1", "2", "3", "4", "5", "6", "7", "8", "9"}

DigitVal(c) ==
    CASE c = "0" -> 0 [] c = "1" -> 1 [] c = "2" -> 2 [] c = "3" -> 3
      [] c = "4" -> 4 [] c = "5" -> 5 [] c = "6" -> 6 [] c = "7" -> 7
      [] c = "8" -> 8 [] c = "9" -> 9

DigitChar(d) ==
    CASE d = 0 -> "0" [] d = 1 -> "1" [] d = 2 -> "2" [] d = 3 -> "3"
      [] d = 4 -> "4" [] d = 5 -> "5" [] d = 6 -> "6" [] d = 7 -> "7"
      [] d = 8 -> "8" [] d = 9 -> "9"

\* u32::to_string / usize::to_string: decimal digits, no sign, no padding.
RECURSIVE to_string(_)
to_string(n) ==
    IF n < 10 THEN <<DigitChar(n)>>
    ELSE Append(to_string(n \div 10), DigitChar(n % 10))

\* The digits of a number text, most significant first; -1 on a non-digit.
RECURSIVE DigitsValue(_, _)
DigitsValue(s, acc) ==
    IF Len(s) = 0 THEN acc
    ELSE IF Head(s) \in Digit
         THEN DigitsValue(Tail(s), acc * 10 + DigitVal(Head(s)))
         ELSE -1

\* str::parse::<u32>(): an optional '+', then one or more digits; no blanks,
\* no '-'.  The texts of the model are shorter than ten digits, so the
\* overflow error of the code cannot occur.
from_str_u32(s) ==
    IF Len(s) = 0 THEN Err([kind |-> "InvalidNumber", error |-> "Empty"])
    ELSE LET body == IF Head(s) = "+" THEN Tail(s) ELSE s
             v == DigitsValue(body, 0)
         IN IF Len(body) = 0 \/ v < 0
            THEN Err([kind |-> "InvalidNumber", error |-> "InvalidDigit"])
            ELSE Ok(v)

\* str::split(','): the pieces between commas; the empty text gives one
\* empty piece.
RECURSIVE SplitFrom(_, _, _)
SplitFrom(s, cur, acc) ==
    IF Len(s) = 0 THEN Append(acc, cur)
    ELSE IF Head(s) = ","
         THEN SplitFrom(Tail(s), <<>>, Append(acc, cur))
         ELSE SplitFrom(Tail(s), Append(cur, Head(s)), acc)

split(s) == SplitFrom(s, <<>>, <<>>)

\* str::split_once(','): the text before and after the first comma.
RECURSIVE FirstComma(_, _)
FirstComma(s, i) ==
    IF i > Len(s) THEN 0
    ELSE IF s[i] = "," THEN i ELSE FirstComma(s, i + 1)

\* A variant of split_once that splits at the last comma: C15 tells the two
\* apart.
split_once_at_last(s) ==
    IF \A i \in DOMAIN s : s[i] # "," THEN None
    ELSE Some(<<SubSeq(s, 1, (CHOOSE i \in DOMAIN s :
                                s[i] = "," /\ \A j \in (i + 1)..Len(s) : s[j] # ",") - 1),
                SubSeq(s, (CHOOSE i \in DOMAIN s :
                                s[i] = "," /\ \A j \in (i + 1)..Len(s) : s[j] # ",") + 1,
                       Len(s))>>)

split_once(s) ==
    LET i == FirstComma(s, 1)
    IN IF i = 0 THEN None
       ELSE Some(<<SubSeq(s, 1, i - 1), SubSeq(s, i + 1, Len(s))>>)

\* str::trim(): blanks removed at both ends.
RECURSIVE TrimStart(_)
TrimStart(s) ==
    IF Len(s) > 0 /\ Head(s) = " " THEN TrimStart(Tail(s)) ELSE s

RECURSIVE TrimEnd(_)
TrimEnd(s) ==
    IF Len(s) > 0 /\ s[Len(s)] = " " THEN TrimEnd(SubSeq(s, 1, Len(s) - 1)) ELSE s

trim(s) == TrimEnd(TrimStart(s))

\* slice::join(","): the pieces with a comma between neighbours.
RECURSIVE join(_)
join(v) ==
    IF Len(v) = 0 THEN <<>>
    ELSE IF Len(v) = 1 THEN v[1]
    ELSE v[1] \o <<",">> \o join(Tail(v))

\* str::to_lowercase() on the words and names of the model: the spellings with
\* an upper-case letter, each with its lower-case form.
LowerWord ==
       ("True" :> "true")
    @@ ("TRUE" :> "true")
    @@ ("ON" :> "on")
    @@ ("On" :> "on")
    @@ ("Yes" :> "yes")
    @@ ("YES" :> "yes")
    @@ ("False" :> "false")
    @@ ("FALSE" :> "false")
    @@ ("OFF" :> "off")
    @@ ("Off" :> "off")
    @@ ("No" :> "no")
    @@ ("NO" :> "no")
    @@ ("Maybe" :> "maybe")
    @@ ("CONTENTS" :> "contents")
    @@ ("WIF" :> "wif")
    @@ ("COLOR PALETTE" :> "color palette")
    @@ ("COLOR TABLE" :> "color table")
    @@ ("WARP SYMBOL PALETTE" :> "warp symbol palette")
    @@ ("WEFT SYMBOL PALETTE" :> "weft symbol palette")
    @@ ("TEXT" :> "text")
    @@ ("WEAVING" :> "weaving")
    @@ ("WARP" :> "warp")
    @@ ("WEFT" :> "weft")
    @@ ("NOTES" :> "notes")
    @@ ("TIEUP" :> "tieup")
    @@ ("WARP SYMBOL TABLE" :> "warp symbol table")
    @@ ("WEFT SYMBOL TABLE" :> "weft symbol table")
    @@ ("THREADING" :> "threading")
    @@ ("WARP THICKNESS" :> "warp thickness")
    @@ ("WARP THICKNESS ZOOM" :> "warp thickness zoom")
    @@ ("WARP SPACING" :> "warp spacing")
    @@ ("WARP SPACING ZOOM" :> "warp spacing zoom")
    @@ ("WARP COLORS" :> "warp colors")
    @@ ("WARP SYMBOLS" :> "warp symbols")
    @@ ("TREADLING" :> "treadling")
    @@ ("LIFTPLAN" :> "liftplan")
    @@ ("WEFT THICKNESS" :> "weft thickness")
    @@ ("WEFT THICKNESS ZOOM" :> "weft thickness zoom")
    @@ ("WEFT SPACING" :> "weft spacing")
    @@ ("WEFT SPACING ZOOM" :> "weft spacing zoom")
    @@ ("WEFT COLORS" :> "weft colors")
    @@ ("WEFT SYMBOLS" :> "weft symbols")
    @@ ("Version" :> "version")
    @@ ("Date" :> "date")
    @@ ("Developers" :> "developers")
    @@ ("Source Program" :> "source program")
    @@ ("Source Version" :> "source version")
    @@ ("Entries" :> "entries")
    @@ ("Range" :> "range")
    @@ ("Title" :> "title")
    @@ ("Author" :> "author")
    @@ ("Address" :> "address")
    @@ ("EMail" :> "email")
    @@ ("Telephone" :> "telephone")
    @@ ("Fax" :> "fax")
    @@ ("Shafts" :> "shafts")
    @@ ("Treadles" :> "treadles")
    @@ ("Rising Shed" :> "rising shed")
    @@ ("Threads" :> "threads")
    @@ ("Color" :> "color")
    @@ ("Symbol" :> "symbol")
    @@ ("Symbol Number" :> "symbol number")
    @@ ("Units" :> "units")
    @@ ("Spacing" :> "spacing")
    @@ ("Thickness" :> "thickness")
    @@ ("Spacing Thickness" :> "spacing thickness")
    @@ ("Thickness Zoom" :> "thickness zoom")

\* The image of w under the map f, w itself where f has none.
image_or_self(f, w) == IF w \in DOMAIN f THEN f[w] ELSE w

\* to_lowercase of one name or word.
lower(w) == image_or_self(LowerWord, w)

to_lowercase(s) ==
    [i \in DOMAIN s |-> lower(s[i])]

-----------------------------------------------------------------------------
(* Field codec: trait WifParse (src/src/wifparse.rs)                       *)

\* The types that implement WifParse, as far as the sections use them.
T_String == [k |-> "String"]

T_NaiveDate == [k |-> "NaiveDate"]

T_u32 == [k |-> "u32"]

T_usize == [k |-> "usize"]

T_f64 == [k |-> "f64"]

T_bool == [k |-> "bool"]

T_Shaft == [k |-> "Shaft"]

T_Treadle == [k |-> "Treadle"]

T_Warp == [k |-> "Warp"]

T_Weft == [k |-> "Weft"]

T_Color == [k |-> "Color"]

T_BaseColor == [k |-> "BaseColor"]

T_Pair(t) == [k |-> "Pair", of |-> t]

T_BTreeSet(t) == [k |-> "BTreeSet", of |-> t]

T_Option(t) == [k |-> "Option", of |-> t]

T_Vec(t) == [k |-> "Vec", of |-> t]

T_Symbol == [k |-> "Symbol"]

IntegerKinds == {"u32", "usize", "Shaft", "Treadle", "Warp", "Weft"}

\* chrono's NaiveDate::parse_from_str(s, "%B %d, %Y") and format("%B %d, %Y"),
\* an external collaborator: the dates the model knows, each with its
\* canonical text; every other text is no date.
DateText ==
    [d \in {<<1997, 4, 20>>, <<2023, 11, 5>>} |->
        IF d = <<1997, 4, 20>> THEN <<"April 20, 1997">>
        ELSE <<"November 05, 2023">>]

parse_NaiveDate(s) ==
    IF \E d \in DOMAIN DateText : DateText[d] = s
    THEN Ok(CHOOSE d \in DOMAIN DateText : DateText[d] = s)
    ELSE Err([kind |-> "InvalidDate"])

\* str::parse::<f64>() on plain decimals: an optional sign, digits, an
\* optional '.', digits, with at least one digit.  The value is kept as sign,
\* integer part and fraction digits without trailing zeros.  The texts of the
\* model hold no exponent, "inf" or "nan".
RECURSIVE StripZeros(_)
StripZeros(s) ==
    IF Len(s) > 0 /\ s[Len(s)] = "0" THEN StripZeros(SubSeq(s, 1, Len(s) - 1)) ELSE s

RECURSIVE FirstDot(_, _)
FirstDot(s, i) ==
    IF i > Len(s) THEN 0
    ELSE IF s[i] = "." THEN i ELSE FirstDot(s, i + 1)

from_str_f64(s) ==
    LET neg == Len(s) > 0 /\ Head(s) = "-"
        body == IF Len(s) > 0 /\ Head(s) \in {"+", "-"} THEN Tail(s) ELSE s
        dot == FirstDot(body, 1)
        ip == IF dot = 0 THEN body ELSE SubSeq(body, 1, dot - 1)
        fp == IF dot = 0 THEN <<>> ELSE SubSeq(body, dot + 1, Len(body))
    IN IF (Len(ip) = 0 /\ Len(fp) = 0)
          \/ (\E i \in DOMAIN ip : ip[i] \notin Digit)
          \/ (\E i \in DOMAIN fp : fp[i] \notin Digit)
       THEN Err([kind |-> "InvalidFloat"])
       ELSE Ok([neg |-> neg, int |-> DigitsValue(ip, 0), frac |-> StripZeros(fp)])

\* f64::to_string(): shortest decimal text, never an exponent.
to_string_f64(v) ==
    (IF v.neg THEN <<"-">> ELSE <<>>) \o to_string(v.int)
        \o (IF Len(v.frac) = 0 THEN <<>> ELSE <<".">> \o v.frac)

\* impl WifParse for bool: parse.
match_bool(l, s) ==
    IF l \in {<<"true">>, <<"on">>, <<"yes">>, <<"1">>} THEN Ok(TRUE)
    ELSE IF l \in {<<"false">>, <<"off">>, <<"no">>, <<"0">>} THEN Ok(FALSE)
    ELSE Err([kind |-> "ExpectedBool", saw |-> s])

parse_bool(s) == match_bool(to_lowercase(s), s)

\* impl WifParse for Color: parse.  Every part is trimmed and parsed; the first
\* part that is no number ends the parse; then the count must be three.
parse_Color(s) ==
    LET parts == split(s)
    IN and_then(collect([i \in DOMAIN parts |-> from_str_u32(trim(parts[i]))]),
                LAMBDA v : IF Len(v) # 3
                           THEN Err([kind |-> "ColorsMustBeThreeParts"])
                           ELSE Ok([red |-> v[1], green |-> v[2], blue |-> v[3]]))

\* A call that does not return: an `unwrap` of None unwinds through every
\* caller, as an Err does through `?`, and is no Err.
Panic == [ok |-> FALSE, panicked |-> TRUE]

\* char::from_u32: the code points that are a char.
from_u32_is_some(n) == n <= 1114111 /\ ~(55296 <= n /\ n <= 57343)

\* impl WifParse for Symbol: parse.  A text that starts with a quote gives the
\* character after it, one that starts with '#' the character of the number
\* after it, any other text its first character; `unwrap` panics where there
\* is no such character.
parse_Symbol(s) ==
    IF Len(s) > 0 /\ s[1] = "'"
    THEN (IF Len(s) >= 2 THEN Ok([variant |-> "Quoted", ch |-> s[2]]) ELSE Panic)
    ELSE IF Len(s) > 0 /\ s[1] = "#"
    THEN and_then(from_str_u32(Tail(s)),
                  LAMBDA n : IF from_u32_is_some(n)
                             THEN Ok([variant |-> "Code", code |-> n]) ELSE Panic)
    ELSE IF Len(s) = 0 THEN Panic
    ELSE Ok([variant |-> "Char", ch |-> s[1]])

\* impl WifParse for Symbol: unparse.  format!("\\{c}") is a backslash and c.
unparse_Symbol(v) ==
    CASE v.variant = "Char" -> Some(<<v.ch>>)
      [] v.variant = "Quoted" -> Some(<<"\\", v.ch>>)
      [] v.variant = "Code" -> Some(<<"#">> \o to_string(v.code))

\* The elements of a set in ascending order (BTreeSet iteration).
RECURSIVE Ascending(_)
Ascending(S) ==
    IF S = {} THEN <<>>
    ELSE LET m == CHOOSE x \in S : \A y \in S : x <= y
         IN <<m>> \o Ascending(S \ {m})

\* WifParse::parse for the type t on the text s.
RECURSIVE parse_value(_, _)
parse_value(t, s) ==
    CASE t.k = "String" -> Ok(s)
      [] t.k = "NaiveDate" -> parse_NaiveDate(s)
      [] t.k \in IntegerKinds -> from_str_u32(s)
      [] t.k = "f64" -> from_str_f64(s)
      [] t.k = "bool" -> parse_bool(s)
      [] t.k = "Color" -> parse_Color(s)
      [] t.k = "BaseColor" ->
            map_ok(parse_value(T_u32, s), LAMBDA idx : [idx |-> idx, alt |-> None])
      [] t.k = "Option" -> map_ok(parse_value(t.of, s), Some)
      [] t.k = "Pair" ->
            and_then(ok_or_else(split_once(s), [kind |-> "ExpectedPair", saw |-> s]),
                     LAMBDA ab :
                        and_then(parse_value(t.of, ab[1]),
                                 LAMBDA a : map_ok(parse_value(t.of, ab[2]),
                                                   LAMBDA b : <<a, b>>)))
      [] t.k = "BTreeSet" ->
            LET parts == split(s)
            IN map_ok(collect([i \in DOMAIN parts |-> parse_value(t.of, parts[i])]),
                      LAMBDA v : {v[i] : i \in DOMAIN v})
      [] t.k = "Vec" ->
            LET parts == split(s)
            IN collect([i \in DOMAIN parts |-> parse_value(t.of, parts[i])])
      [] t.k = "Symbol" -> parse_Symbol(s)

\* WifParse::unparse for the type t on the value v: Some(text), or None for an
\* absent value.
RECURSIVE unparse(_, _)
unparse(t, v) ==
    CASE t.k = "String" -> Some(v)
      [] t.k = "NaiveDate" -> Some(DateText[v])
      [] t.k \in IntegerKinds -> Some(to_string(v))
      [] t.k = "f64" -> Some(to_string_f64(v))
      [] t.k = "bool" -> Some(IF v THEN <<"true">> ELSE <<"false">>)
      [] t.k = "Color" ->
            Some(to_string(v.red) \o <<",">> \o to_string(v.green)
                    \o <<",">> \o to_string(v.blue))
      [] t.k = "BaseColor" -> unparse(T_u32, v.idx)
      [] t.k = "Option" -> IF IsNone(v) THEN None ELSE unparse(t.of, v[1])
      [] t.k = "Pair" ->
            LET a == unparse(t.of, v[1])
                b == unparse(t.of, v[2])
            IN IF IsNone(a) \/ IsNone(b) THEN None
               ELSE Some(a[1] \o <<",">> \o b[1])
      [] t.k = "BTreeSet" ->
            LET elems == Ascending(v)
                us == [i \in DOMAIN elems |-> unparse(t.of, elems[i])]
            IN IF \E i \in DOMAIN us : IsNone(us[i]) THEN None
               ELSE Some(join([i \in DOMAIN us |-> us[i][1]]))
      [] t.k = "Vec" ->
            LET us == [i \in DOMAIN v |-> unparse(t.of, v[i])]
            IN IF \E i \in DOMAIN us : IsNone(us[i]) THEN None
               ELSE Some(join([i \in DOMAIN us |-> us[i][1]]))
      [] t.k = "Symbol" -> unparse_Symbol(v)

\* WifContext::add_context: an error is wrapped with its section and field.
add_context(r, section, field) ==
    IF r.ok THEN r
    ELSE Err([kind |-> "FieldParseError", section |-> section, field |-> field,
              err |-> r.err])

-----------------------------------------------------------------------------
(* Sections (src/src/wif.rs, src/src/wif/wif_sections.rs)                  *)

\* pub mod sections: the section names.
sections ==
    [CONTENTS |-> "CONTENTS", WIF |-> "WIF",
     COLOR_PALETTE |-> "COLOR PALETTE", COLOR_TABLE |-> "COLOR TABLE",
     WARP_SYMBOL_PALETTE |-> "WARP SYMBOL PALETTE",
     WEFT_SYMBOL_PALETTE |-> "WEFT SYMBOL PALETTE",
     TEXT |-> "TEXT", WEAVING |-> "WEAVING", WARP |-> "WARP", WEFT |-> "WEFT",
     NOTES |-> "NOTES", TIEUP |-> "TIEUP",
     WARP_SYMBOL_TABLE |-> "WARP SYMBOL TABLE",
     WEFT_SYMBOL_TABLE |-> "WEFT SYMBOL TABLE",
     THREADING |-> "THREADING",
     WARP_THICKNESS |-> "WARP THICKNESS",
     WARP_THICKNESS_ZOOM |-> "WARP THICKNESS ZOOM",
     WARP_SPACING |-> "WARP SPACING",
     WARP_SPACING_ZOOM |-> "WARP SPACING ZOOM",
     WARP_COLORS |-> "WARP COLORS", WARP_SYMBOLS |-> "WARP SYMBOLS",
     TREADLING |-> "TREADLING", LIFTPLAN |-> "LIFTPLAN",
     WEFT_THICKNESS |-> "WEFT THICKNESS",
     WEFT_THICKNESS_ZOOM |-> "WEFT THICKNESS ZOOM",
     WEFT_SPACING |-> "WEFT SPACING",
     WEFT_SPACING_ZOOM |-> "WEFT SPACING ZOOM",
     WEFT_COLORS |-> "WEFT COLORS", WEFT_SYMBOLS |-> "WEFT SYMBOLS"]

\* One field of wr_fields!: the struct field, its key text, whether it is
\* required (no '?'), and the type get_field / get_required_field decodes.
Required(name, key, ty) == [name |-> name, key |-> key, req |-> TRUE, ty |-> ty]

Optional(name, key, ty) == [name |-> name, key |-> key, req |-> FALSE, ty |-> ty]

Fields(name, fields) == [NAME |-> name, kind |-> "fields", fields |-> fields]

TableOf(name, key, value) == [NAME |-> name, kind |-> "table", key |-> key, value |-> value]

\* The fields of [WARP] and of [WEFT] (struct WarpS, struct WeftS).
ThreadFields ==
    << Required("threads", "Threads", T_u32),
       Optional("color", "Color", T_BaseColor),
       Optional("symbol", "Symbol", T_String),
       Optional("symbol_number", "Symbol Number", T_usize),
       Optional("units", "Units", T_String),
       Optional("spacing", "Spacing", T_f64),
       Optional("thickness", "Thickness", T_f64),
       Optional("spacing_zoom", "Spacing Thickness", T_u32),
       Optional("thickness_zoom", "Thickness Zoom", T_u32) >>

\* The impls of WifSection: NAME and the shape wr_fields! / wr_table! give it.
WifSection ==
    [Wif |-> Fields(sections.WIF,
                << Required("version", "Version", T_String),
                   Required("date", "Date", T_NaiveDate),
                   Required("developers", "Developers", T_String),
                   Required("source_program", "Source Program", T_String),
                   Optional("source_version", "Source Version", T_String) >>),
     ColorPalette |-> Fields(sections.COLOR_PALETTE,
                << Required("entries", "Entries", T_usize),
                   Required("range", "Range", T_Pair(T_u32)) >>),
     WarpSymbolPalette |-> Fields(sections.WARP_SYMBOL_PALETTE,
                << Required("entries", "Entries", T_usize) >>),
     WeftSymbolPalette |-> Fields(sections.WEFT_SYMBOL_PALETTE,
                << Required("entries", "Entries", T_usize) >>),
     ColorTable |-> TableOf(sections.COLOR_TABLE, T_u32, T_Color),
     Text |-> Fields(sections.TEXT,
                << Optional("title", "Title", T_String),
                   Optional("author", "Author", T_String),
                   Optional("address", "Address", T_String),
                   Optional("email", "EMail", T_String),
                   Optional("telephone", "Telephone", T_String),
                   Optional("fax", "Fax", T_String) >>),
     Weaving |-> Fields(sections.WEAVING,
                << Required("shafts", "Shafts", T_u32),
                   Required("treadles", "Treadles", T_u32),
                   Optional("rising_shed", "Rising Shed", T_bool) >>),
     Warp |-> Fields(sections.WARP, ThreadFields),
     Weft |-> Fields(sections.WEFT, ThreadFields),
     Notes |-> TableOf(sections.NOTES, T_u32, T_String),
     Tieup |-> TableOf(sections.TIEUP, T_Treadle, T_BTreeSet(T_Shaft)),
     WarpSymbolTable |-> TableOf(sections.WARP_SYMBOL_TABLE, T_u32, T_String),
     WeftSymbolTable |-> TableOf(sections.WEFT_SYMBOL_TABLE, T_u32, T_String),
     Threading |-> TableOf(sections.THREADING, T_Warp, T_BTreeSet(T_Shaft)),
     WarpThickness |-> TableOf(sections.WARP_THICKNESS, T_Warp, T_f64),
     WarpThicknessZoom |-> TableOf(sections.WARP_THICKNESS_ZOOM, T_Warp, T_u32),
     WarpSpacing |-> TableOf(sections.WARP_SPACING, T_Warp, T_f64),
     WarpSpacingZoom |-> TableOf(sections.WARP_SPACING_ZOOM, T_Warp, T_u32),
     WarpColors |-> TableOf(sections.WARP_COLORS, T_Warp, T_u32),
     WarpSymbols |-> TableOf(sections.WARP_SYMBOLS, T_Warp, T_u32),
     WeftThickness |-> TableOf(sections.WEFT_THICKNESS, T_Weft, T_f64),
     WeftThicknessZoom |-> TableOf(sections.WEFT_THICKNESS_ZOOM, T_Weft, T_u32),
     WeftSpacing |-> TableOf(sections.WEFT_SPACING, T_Weft, T_f64),
     WeftSpacingZoom |-> TableOf(sections.WEFT_SPACING_ZOOM, T_Weft, T_u32),
     WeftColors |-> TableOf(sections.WEFT_COLORS, T_Weft, T_u32),
     WeftSymbols |-> TableOf(sections.WEFT_SYMBOLS, T_Weft, T_u32),
     Treadling |-> TableOf(sections.TREADLING, T_Weft, T_BTreeSet(T_Treadle)),
     Liftplan |-> TableOf(sections.LIFTPLAN, T_Weft, T_BTreeSet(T_Shaft))]

Slot(field, section) == [field |-> field, section |-> section]

\* The order in which parse reads the sections: read_section!, field by field.
ReadOrder ==
    << Slot("color_palette", "ColorPalette"), Slot("color_table", "ColorTable"),
       Slot("warp_symbol_palette", "WarpSymbolPalette"),
       Slot("weft_symbol_palette", "WeftSymbolPalette"),
       Slot("text", "Text"), Slot("weaving", "Weaving"),
       Slot("warp", "Warp"), Slot("weft", "Weft"),
       Slot("notes", "Notes"), Slot("tieup", "Tieup"),
       Slot("warp_symbol_table", "WarpSymbolTable"),
       Slot("weft_symbols_table", "WeftSymbolTable"),
       Slot("threading", "Threading"),
       Slot("warp_thickness", "WarpThickness"),
       Slot("warp_thickness_zoom", "WarpThicknessZoom"),
       Slot("warp_spacing", "WarpSpacing"),
       Slot("warp_spacing_zoom", "WarpSpacingZoom"),
       Slot("warp_colors", "WarpColors"), Slot("warp_symbols", "WarpSymbols"),
       Slot("weft_thickness", "WeftThickness"),
       Slot("weft_thickness_zoom", "WeftThicknessZoom"),
       Slot("weft_spacing", "WeftSpacing"),
       Slot("weft_spacing_zoom", "WeftSpacingZoom"),
       Slot("weft_colors", "WeftColors"), Slot("weft_symbols", "WeftSymbols"),
       Slot("treadling", "Treadling"), Slot("liftplan", "Liftplan") >>

\* The order in which Wif::write writes the sections: write_section!.
WriteOrder ==
    << Slot("color_palette", "ColorPalette"),
       Slot("warp_symbol_palette", "WarpSymbolPalette"),
       Slot("weft_symbol_palette", "WeftSymbolPalette"),
       Slot("color_table", "ColorTable"),
       Slot("text", "Text"), Slot("weaving", "Weaving"),
       Slot("warp", "Warp"), Slot("weft", "Weft"),
       Slot("notes", "Notes"), Slot("tieup", "Tieup"),
       Slot("warp_symbol_table", "WarpSymbolTable"),
       Slot("weft_symbols_table", "WeftSymbolTable"),
       Slot("threading", "Threading"),
       Slot("warp_thickness", "WarpThickness"),
       Slot("warp_thickness_zoom", "WarpThicknessZoom"),
       Slot("warp_spacing", "WarpSpacing"),
       Slot("warp_spacing_zoom", "WarpSpacingZoom"),
       Slot("warp_colors", "WarpColors"), Slot("warp_symbols", "WarpSymbols"),
       Slot("weft_thickness", "WeftThickness"),
       Slot("weft_thickness_zoom", "WeftThicknessZoom"),
       Slot("weft_spacing", "WeftSpacing"),
       Slot("weft_spacing_zoom", "WeftSpacingZoom"),
       Slot("weft_colors", "WeftColors"), Slot("weft_symbols", "WeftSymbols"),
       Slot("treadling", "Treadling"), Slot("liftplan", "Liftplan") >>

\* The optional fields of struct Wif (every field but wif_header).
OptionalFields == {ReadOrder[i].field : i \in DOMAIN ReadOrder}

\* A Wif with the given header and no other sub-structure.
EmptyWif(header) ==
    [f \in OptionalFields \cup {"wif_header"} |->
        IF f = "wif_header" THEN header ELSE None]

-----------------------------------------------------------------------------
(* The raw map of the ini collaborator: section name -> key -> Option text. *)
(* parse reads it with Ini::new(), which folds section names and keys to    *)
(* lower case, when reading the text and on every get.                      *)

\* Ini::get on a case-insensitive map.
map_get(m, s, k) ==
    IF s \in DOMAIN m THEN (IF k \in DOMAIN m[s] THEN m[s][k] ELSE None)
    ELSE None

ini_get(m, section, key) == map_get(m, lower(section), lower(key))

\* Ini::set on the case-sensitive map Wif::write fills: the section is created
\* when it does not exist yet.
ini_set(m, section, key, value) ==
    IF section \in DOMAIN m
    THEN [m EXCEPT ![section] = (key :> value) @@ @]
    ELSE (section :> (key :> value)) @@ m

\* A variant of get_field that takes a text which does not decode for no
\* field at all: C13 tells the two apart.
get_field_or_none(m, section, field, ty) ==
    IF IsSome(ini_get(m, section, field))
            /\ parse_value(ty, ini_get(m, section, field)[1]).ok
    THEN Ok(Some(parse_value(ty, ini_get(m, section, field)[1]).val))
    ELSE Ok(None)

\* fn get_field: an absent field is Ok(None).
get_field(m, section, field, ty) ==
    add_context(map_transpose(ini_get(m, section, field),
                              LAMBDA s : parse_value(ty, s)),
                section, field)

\* fn get_required_field: an absent field is MissingRequiredField.
get_required_field(m, section, field, ty) ==
    and_then(get_field(m, section, field, ty),
             LAMBDA o : ok_or_else(o, [kind |-> "MissingRequiredField",
                                       section |-> section, field |-> field]))

\* A variant of has_section that takes a section without a flag as present:
\* C6 tells the two apart.
has_section_unless_false(m, section_name) ==
    map_ok(get_field(m, sections.CONTENTS, section_name, T_bool),
           LAMBDA o : unwrap_or(o, TRUE))

\* fn has_section: the CONTENTS flag of a section, false when there is none.
has_section(m, section_name) ==
    map_ok(get_field(m, sections.CONTENTS, section_name, T_bool),
           LAMBDA o : unwrap_or(o, FALSE))

\* read_fields!: the fields are read in their order, the first error ends the
\* read; the result is the struct.
RECURSIVE read_fields(_, _, _, _)
read_fields(m, name, fields, acc) ==
    IF Len(fields) = 0 THEN Ok(acc)
    ELSE LET f == Head(fields)
         IN and_then(IF f.req THEN get_required_field(m, name, f.key, f.ty)
                     ELSE get_field(m, name, f.key, f.ty),
                     LAMBDA v : read_fields(m, name, Tail(fields),
                                            (f.name :> v) @@ acc))

\* The orders in which a map can be visited.
RECURSIVE Orders(_)
Orders(S) ==
    IF S = {} THEN {<<>>}
    ELSE UNION {{<<x>> \o o : o \in Orders(S \ {x})} : x \in S}

RECURSIVE parse_table_loop(_, _, _, _, _)

\* A variant of the loop that skips an entry whose key is no number: C8 tells
\* the two apart.
parse_table_loop_skip_keys(section, order, rv, section_name, vty) ==
    IF Len(order) = 0 THEN Ok(rv)
    ELSE IF IsNone(section[Head(order)]) \/ ~from_str_u32(Head(order)).ok
    THEN parse_table_loop(section, Tail(order), rv, section_name, vty)
    ELSE and_then(
            add_context(parse_value(vty, section[Head(order)][1]),
                        section_name, Head(order)),
            LAMBDA val :
                parse_table_loop(section, Tail(order),
                                 (from_str_u32(Head(order)).val :> val) @@ rv,
                                 section_name, vty))

\* The loop of fn parse_table over the entries in the order given.
parse_table_loop(section, order, rv, section_name, vty) ==
    IF Len(order) = 0 THEN Ok(rv)
    ELSE LET k == Head(order)
         IN IF IsNone(section[k])
            THEN parse_table_loop(section, Tail(order), rv, section_name, vty)
            ELSE and_then(
                    map_err(from_str_u32(k),
                            [kind |-> "CouldNotParseTableKey",
                             section |-> section_name, key |-> k]),
                    LAMBDA id :
                        and_then(
                            add_context(parse_value(vty, section[k][1]),
                                        section_name, k),
                            LAMBDA val :
                                parse_table_loop(section, Tail(order),
                                                 (id :> val) @@ rv,
                                                 section_name, vty)))

\* A variant of parse_table that reads a section that is not there as the
\* empty table: C7 tells the two apart.
parse_table_or_empty(m, section_name, vty) ==
    IF lower(section_name) \notin DOMAIN m
    THEN {Ok(<<>>)}
    ELSE {parse_table_loop(m[lower(section_name)], o, <<>>, section_name, vty) :
            o \in Orders(DOMAIN m[lower(section_name)])}

\* fn parse_table: the results it can give, one for each order in which the
\* entries of the section can be visited.
parse_table(m, section_name, vty) ==
    IF lower(section_name) \notin DOMAIN m
    THEN {Err([kind |-> "MissingSection", section |-> section_name])}
    ELSE LET section == m[lower(section_name)]
         IN {parse_table_loop(section, o, <<>>, section_name, vty) :
                o \in Orders(DOMAIN section)}

\* WifSection::read of the section struct d: the results it can give.
read(d, m) ==
    IF d.kind = "table" THEN parse_table(m, d.NAME, d.value)
    ELSE {read_fields(m, d.NAME, d.fields, <<>>)}

-----------------------------------------------------------------------------
(* Liftplan reconciliation (src/src/lib.rs, src/src/wif.rs)                *)

\* A variant of the composition in which a row with an untied treadle lifts
\* nothing: C2 tells the two apart.
liftplan_from_threading_and_treadle_tied_rows(treadling, tieup) ==
    IF IsNone(treadling) \/ IsNone(tieup) THEN None
    ELSE Some([w \in DOMAIN treadling[1] |->
                IF treadling[1][w] \subseteq DOMAIN tieup[1]
                THEN UNION {tieup[1][t] : t \in treadling[1][w]}
                ELSE {}])

\* fn liftplan_from_threading_and_treadle.  `treadling?` returns None at once;
\* `tieup?` is evaluated inside the loops, so it returns None only when some
\* row of the treadling holds a treadle.
liftplan_from_threading_and_treadle(treadling, tieup) ==
    IF IsNone(treadling) THEN None
    ELSE LET T == treadling[1]
         IN IF IsNone(tieup)
            THEN (IF \E w \in DOMAIN T : T[w] # {} THEN None
                  ELSE Some([w \in DOMAIN T |-> {}]))
            ELSE LET U == tieup[1]
                 IN Some([w \in DOMAIN T |->
                            UNION {U[t] : t \in T[w] \cap DOMAIN U}])

\* A variant of the validation that compares the rows and not their shafts:
\* C3 tells the two apart.
build_or_validate_liftplan_rows_only(w) ==
    LET liftplan == liftplan_from_threading_and_treadle(w.treadling, w.tieup)
    IN IF IsNone(liftplan) THEN [result |-> Ok(<<>>), wif |-> w]
       ELSE IF IsNone(w.liftplan)
            THEN [result |-> Ok(<<>>), wif |-> [w EXCEPT !.liftplan = liftplan]]
       ELSE IF DOMAIN liftplan[1] = DOMAIN w.liftplan[1]
            THEN [result |-> Ok(<<>>), wif |-> w]
       ELSE [result |-> Err([kind |-> "LiftPlanDoesNotMatchTreadling"]), wif |-> w]

\* A variant of the validation that replaces a liftplan which does not match
\* by the composed one: C16 tells the two apart.
build_or_validate_liftplan_overwrite(w) ==
    LET liftplan == liftplan_from_threading_and_treadle(w.treadling, w.tieup)
    IN IF IsNone(liftplan) THEN [result |-> Ok(<<>>), wif |-> w]
       ELSE [result |-> Ok(<<>>), wif |-> [w EXCEPT !.liftplan = liftplan]]

\* A variant of the validation that takes every liftplan beside a treadling
\* and a tieup for a mismatch: C19 tells the two apart.
build_or_validate_liftplan_no_match(w) ==
    LET liftplan == liftplan_from_threading_and_treadle(w.treadling, w.tieup)
    IN IF IsNone(liftplan) THEN [result |-> Ok(<<>>), wif |-> w]
       ELSE IF IsNone(w.liftplan)
            THEN [result |-> Ok(<<>>), wif |-> [w EXCEPT !.liftplan = liftplan]]
       ELSE [result |-> Err([kind |-> "LiftPlanDoesNotMatchTreadling"]), wif |-> w]

\* Wif::build_or_validate_liftplan: its result and the Wif it leaves.
build_or_validate_liftplan(w) ==
    LET liftplan == liftplan_from_threading_and_treadle(w.treadling, w.tieup)
    IN IF IsNone(liftplan) THEN [result |-> Ok(<<>>), wif |-> w]
       ELSE IF IsNone(w.liftplan)
            THEN [result |-> Ok(<<>>), wif |-> [w EXCEPT !.liftplan = liftplan]]
       ELSE IF liftplan[1] = w.liftplan[1] THEN [result |-> Ok(<<>>), wif |-> w]
       ELSE [result |-> Err([kind |-> "LiftPlanDoesNotMatchTreadling"]), wif |-> w]

-----------------------------------------------------------------------------
(* Document assembly: fn parse (src/src/wif.rs)                            *)

\* One run of parse: its result, the sections it called read on, in order
\* (with "reconcile" for the call of build_or_validate_liftplan), and the Wif
\* it had assembled when it called build_or_validate_liftplan, if it got there.
Run(result, done, assembled) ==
    [result |-> result, steps |-> done, assembled |-> assembled]

RECURSIVE read_sections(_, _, _, _)
RECURSIVE read_section(_, _, _, _, _)

\* A variant of read_section! that leaves out a section which does not read
\* and goes on: C17 tells the two apart.
read_section_skip_failed(m, i, d, w, done) ==
    UNION {IF ~h.ok THEN {Run(h, done, None)}
           ELSE IF ~h.val THEN read_sections(m, i + 1, w, done)
           ELSE UNION {read_sections(m, i + 1,
                           IF r.ok THEN [w EXCEPT ![ReadOrder[i].field] = Some(r.val)]
                           ELSE w,
                           Append(done, d.NAME)) :
                           r \in read(d, m)} :
              h \in {has_section(m, d.NAME)}}

\* The read_section! steps from the i-th on, on the Wif assembled so far: the
\* runs parse can take, an error ending it at once.  read_section is one
\* read_section! for the section struct d.
read_section(m, i, d, w, done) ==
    UNION {IF ~h.ok THEN {Run(h, done, None)}
           ELSE IF ~h.val THEN read_sections(m, i + 1, w, done)
           ELSE UNION {IF r.ok
                       THEN read_sections(m, i + 1,
                               [w EXCEPT ![ReadOrder[i].field] = Some(r.val)],
                               Append(done, d.NAME))
                       ELSE {Run(r, Append(done, d.NAME), None)} :
                           r \in read(d, m)} :
              h \in {has_section(m, d.NAME)}}

read_sections(m, i, w, done) ==
    IF i > Len(ReadOrder)
    THEN {Run(IF b.result.ok THEN Ok(b.wif) ELSE b.result,
              Append(done, "reconcile"), Some(w)) :
              b \in {build_or_validate_liftplan(w)}}
    ELSE read_section(m, i, WifSection[ReadOrder[i].section], w, done)

\* fn parse, from the raw map Ini::read built: the header, the flagged
\* sections, then the liftplan reconciliation.
parse_runs(m) ==
    UNION {IF ~header.ok THEN {Run(header, <<sections.WIF>>, None)}
           ELSE read_sections(m, 1, EmptyWif(header.val), <<sections.WIF>>) :
              header \in {read_fields(m, sections.WIF, WifSection.Wif.fields, <<>>)}}

\* The results of fn parse.
parse(m) == {x.result : x \in parse_runs(m)}

-----------------------------------------------------------------------------
(* Writing: Wif::write, struct Section (src/src/wif.rs)                    *)

\* Section::record_usage.
record_usage(m, name) == ini_set(m, sections.CONTENTS, name, Some(<<"true">>))

\* Section::write: a value that unparses to None is not written.
set_if_some(m, name, key, val) ==
    IF IsSome(val) THEN ini_set(m, name, key, val) ELSE m

section_write(m, name, key, ty, value) ==
    set_if_some(m, name, key, unparse(ty, value))

\* write_fields!: every field in its order.
RECURSIVE write_fields(_, _, _, _)
write_fields(m, name, fields, value) ==
    IF Len(fields) = 0 THEN m
    ELSE LET f == Head(fields)
             ty == IF f.req THEN f.ty ELSE T_Option(f.ty)
         IN write_fields(section_write(m, name, f.key, ty, value[f.name]),
                         name, Tail(fields), value)

\* Section::write_table: every entry, in ascending key order.
RECURSIVE write_table(_, _, _, _, _)
write_table(m, name, vty, table, keys) ==
    IF Len(keys) = 0 THEN m
    ELSE LET k == Head(keys)
             k_str == to_string(k)
         IN write_table(section_write(m, name, k_str, vty, table[k]),
                        name, vty, table, Tail(keys))

\* A variant of write_section that records the presence of the header too:
\* C12 tells the two apart.
write_section_flag_header(d, value, m) ==
    IF d.kind = "table"
    THEN write_table(record_usage(m, d.NAME), d.NAME, d.value, value,
                     Ascending(DOMAIN value))
    ELSE write_fields(record_usage(m, d.NAME), d.NAME, d.fields, value)

\* WifSection::write of the section struct d (wr_fields! / wr_table!).
write_section(d, value, m) ==
    LET m1 == IF d.NAME # "WIF" THEN record_usage(m, d.NAME) ELSE m
    IN IF d.kind = "table"
       THEN write_table(m1, d.NAME, d.value, value, Ascending(DOMAIN value))
       ELSE write_fields(m1, d.NAME, d.fields, value)

\* write_section!: the sub-structures that are present, in their order.
RECURSIVE write_sections(_, _, _)
write_sections(w, i, m) ==
    IF i > Len(WriteOrder) THEN m
    ELSE LET slot == WriteOrder[i]
         IN write_sections(w, i + 1,
                IF IsSome(w[slot.field])
                THEN write_section(WifSection[slot.section], w[slot.field][1], m)
                ELSE m)

\* Wif::write: the map whose text (Ini::writes) goes to the output.
write(w) == write_sections(w, 1, write_section(WifSection.Wif, w.wif_header, <<>>))

\* The names of the table sections.
names_of_kind(S, kind) == {S[x].NAME : x \in {y \in DOMAIN S : S[y].kind = kind}}

TableNames == names_of_kind(WifSection, "table")

\* Ini::writes followed by Ini::read of parse: the map comes back with section
\* names and keys folded to lower case, and every value as written.
RECURSIVE fold_keys(_, _, _)
fold_keys(body, keys, table) ==
    IF keys = {} THEN <<>>
    ELSE LET y == CHOOSE k \in keys : TRUE
             k == IF table THEN to_lowercase(y) ELSE lower(y)
         IN (k :> body[y]) @@ fold_keys(body, keys \ {y}, table)

RECURSIVE fold_sections(_, _)
fold_sections(m, names) ==
    IF names = {} THEN <<>>
    ELSE LET x == CHOOSE n \in names : TRUE
         IN (lower(x) :> fold_keys(m[x], DOMAIN m[x], x \in TableNames))
                @@ fold_sections(m, names \ {x})

reread(m) == fold_sections(m, DOMAIN m)

-----------------------------------------------------------------------------
(* Derived queries (src/src/wif.rs)                                        *)

\* Wif::get_ct.
get_ct(w, color_idx) ==
    IF IsSome(w.color_table) /\ color_idx \in DOMAIN w.color_table[1]
    THEN Some(w.color_table[1][color_idx])
    ELSE None

\* Wif::get_default_weft_color.
get_default_weft_color(w) ==
    IF IsNone(w.weft) THEN None
    ELSE IF IsNone(w.weft[1].color) THEN None
    ELSE get_ct(w, w.weft[1].color[1].idx)

\* Wif::weft_color.
weft_color(w, weft) ==
    LET own == IF IsSome(w.weft_colors) /\ weft \in DOMAIN w.weft_colors[1]
               THEN get_ct(w, w.weft_colors[1][weft])
               ELSE None
    IN IF IsSome(own) THEN own ELSE get_default_weft_color(w)

\* Wif::get_default_warp_color.
get_default_warp_color(w) ==
    IF IsNone(w.warp) THEN None
    ELSE IF IsNone(w.warp[1].color) THEN None
    ELSE get_ct(w, w.warp[1].color[1].idx)

\* A variant of warp_color that does not fall back when the index of the
\* thread misses the color table: C9 tells the two apart.
warp_color_no_fallback(w, warp) ==
    IF IsSome(w.warp_colors) /\ warp \in DOMAIN w.warp_colors[1]
    THEN get_ct(w, w.warp_colors[1][warp])
    ELSE get_default_warp_color(w)

\* Wif::warp_color.
warp_color(w, warp) ==
    LET own == IF IsSome(w.warp_colors) /\ warp \in DOMAIN w.warp_colors[1]
               THEN get_ct(w, w.warp_colors[1][warp])
               ELSE None
    IN IF IsSome(own) THEN own ELSE get_default_warp_color(w)

\* The range the _u8 queries scale by.
color_range(w) ==
    IF IsSome(w.color_palette) THEN w.color_palette[1].range ELSE <<0, 999>>

\* A call that returned v, and a call that panicked.
Returned(v) == [panicked |-> FALSE, val |-> v]

Panicked == [panicked |-> TRUE]

\* A variant of convert that rounds to the nearest byte: C10 tells the two
\* apart.
convert_rounded(old_value, range) ==
    IF range[1] <= old_value /\ range[1] < range[2]
    THEN {Returned(IF old_value > range[2] THEN 255
                   ELSE ((old_value - range[1]) * 510 + (range[2] - range[1]))
                            \div (2 * (range[2] - range[1])))}
    ELSE {Panicked}

\* The closure `convert` of the _u8 queries:
\*     ((old_value - range.0) as f64 / (range.1 - range.0) as f64 * 255.) as u8
\* with range.0 <= old_value and range.0 < range.1 the quotient is exact enough
\* for the truncation to be that of the exact value.  A u32 subtraction below
\* zero panics in a build with overflow checks and wraps in one without; the
\* cast to u8 saturates and takes NaN to 0.  The wrapped values hold for
\* operands far below 2^31, as the model's are.
convert(old_value, range) ==
    LET low == range[1]
        high == range[2]
    IN IF low <= old_value /\ low < high
       THEN {Returned(IF old_value > high THEN 255
                      ELSE ((old_value - low) * 255) \div (high - low))}
       ELSE IF low <= old_value /\ low = high
       THEN {Returned(IF old_value = low THEN 0 ELSE 255)}
       ELSE {Panicked,
             Returned(IF low <= old_value THEN 0
                      ELSE IF low <= high THEN 255
                      ELSE IF old_value < high THEN 254 ELSE 255)}

\* The three channels converted: a panic of any channel is a panic of the call.
convert_color(color, range) ==
    {IF r.panicked \/ g.panicked \/ b.panicked THEN Panicked
     ELSE Returned(Some(<<r.val, g.val, b.val>>)) :
        <<r, g, b>> \in convert(color.red, range) \X convert(color.green, range)
                          \X convert(color.blue, range)}

\* Wif::weft_color_u8: the outcomes of the call.
weft_color_u8(w, weft) ==
    LET color == weft_color(w, weft)
    IN IF IsNone(color) THEN {Returned(None)}
       ELSE convert_color(color[1], color_range(w))

\* Wif::warp_color_u8: the outcomes of the call.
warp_color_u8(w, warp) ==
    LET color == warp_color(w, warp)
    IN IF IsNone(color) THEN {Returned(None)}
       ELSE convert_color(color[1], color_range(w))

\* A variant of warp_or_weft that takes a cell for warp-dominant as soon as the
\* weft row and the warp both have an entry, whatever the shafts: C11 tells
\* the two apart.
warp_or_weft_any_shafts(w, warp, weft) ==
    IF IsNone(w.liftplan) \/ IsNone(w.threading) THEN None
    ELSE IF weft \in DOMAIN w.liftplan[1] /\ warp \in DOMAIN w.threading[1]
         THEN Some("Warp") ELSE Some("Weft")

\* Wif::warp_or_weft.
warp_or_weft(w, warp, weft) ==
    IF IsNone(w.liftplan) \/ IsNone(w.threading) THEN None
    ELSE LET liftplan == w.liftplan[1]
             threading == w.threading[1]
         IN IF weft \in DOMAIN liftplan
            THEN (IF warp \in DOMAIN threading
                  THEN (IF liftplan[weft] \cap threading[warp] # {}
                        THEN Some("Warp") ELSE Some("Weft"))
                  ELSE Some("Weft"))
            ELSE Some("Weft")

-----------------------------------------------------------------------------
(* Bounds of the model                                                     *)

\* Weft rows 1..MaxRow, treadles 1..MaxTreadle and shafts 1..MaxShaft of the
\* documents the reconciliation is run on.
MaxRow == 1

MaxTreadle == 2

MaxShaft == 2

Rows == 1..MaxRow

Treadles == 1..MaxTreadle

Shafts == 1..MaxShaft

\* The tables from some of the keys K to subsets of V (the empty set too).
SetTables(K, V) == UNION {[D -> SUBSET V] : D \in SUBSET K}

\* The header of the documents built directly.
Header0 ==
    [version |-> <<"1.1">>, date |-> <<1997, 4, 20>>, developers |-> <<"dev">>,
     source_program |-> <<"prog">>, source_version |-> None]

-----------------------------------------------------------------------------
(* Reconciliation on a document: SpecLift                                  *)

\* The tables that are c, or c with one row taken out, put in or changed.
OneRowOff(c) ==
    {c} \cup {[w \in (DOMAIN c) \ {r} |-> c[w]] : r \in Rows}
        \cup {(r :> S) @@ c : r \in Rows, S \in SUBSET Shafts}

\* The liftplans a document is built with beside the treadling T and the
\* tieup U: none; any table within the bounds when the two compose to nothing;
\* and otherwise the composed table and the tables one row off it.
Liftplans(T, U) ==
    {None} \cup
    {Some(l) : l \in IF IsNone(liftplan_from_threading_and_treadle(T, U))
                     THEN SetTables(Rows, Shafts)
                     ELSE OneRowOff(liftplan_from_threading_and_treadle(T, U)[1])}

\* A document built through the public fields of Wif, with any treadling and
\* tieup within the bounds and one of the liftplans above.
InitLift ==
    /\ \E T \in {None} \cup {Some(t) : t \in SetTables(Rows, Treadles)},
          U \in {None} \cup {Some(u) : u \in SetTables(Treadles, Shafts)} :
        \E L \in Liftplans(T, U) :
            wif = Some([EmptyWif(Header0) EXCEPT !.treadling = T, !.tieup = U,
                                                 !.liftplan = L])
    /\ ini = None
    /\ before = None
    /\ res = None
    /\ steps = None
    /\ out = None
    /\ res2 = None
    /\ query = None
    /\ pc = "built"

\* A call of liftplan_from_threading_and_treadle on the tables of the document.
Compose ==
    /\ pc = "built"
    /\ query' = [op |-> "compose",
                 outcome |-> liftplan_from_threading_and_treadle(
                                wif[1].treadling, wif[1].tieup)]
    /\ pc' = "composed"
    /\ UNCHANGED <<ini, wif, before, res, steps, out, res2>>

\* A call of Wif::build_or_validate_liftplan.
BuildOrValidate ==
    /\ pc = "built"
    /\ LET b == build_or_validate_liftplan(wif[1])
       IN /\ wif' = Some(b.wif)
          /\ res' = b.result
    /\ before' = wif
    /\ pc' = "reconciled"
    /\ UNCHANGED <<ini, steps, out, res2, query>>

\* A second call of Wif::build_or_validate_liftplan, on a document the first
\* call returned Ok on.
BuildOrValidateAgain ==
    /\ pc = "reconciled"
    /\ res.ok
    /\ LET b == build_or_validate_liftplan(wif[1])
       IN /\ wif' = Some(b.wif)
          /\ res2' = b.result
    /\ before' = wif
    /\ query' = [op |-> "reconciled", first |-> before]
    /\ pc' = "reconciled again"
    /\ UNCHANGED <<ini, res, steps, out>>

NextLift == Compose \/ BuildOrValidate \/ BuildOrValidateAgain

SpecLift == InitLift /\ [][NextLift]_vars

-----------------------------------------------------------------------------
(* The color queries on a document: SpecColor                              *)

\* Threads 1..MaxThread have a place in the per-thread color tables, color
\* indices 1..MaxColorIdx one in the color table; the queries and the tables
\* also name one thread and one index beyond.
MaxThread == 2

MaxColorIdx == 2

Threads == 1..MaxThread

\* The color the color table of the documents holds under the index i.
ColorOf(i) ==
    IF i = 1 THEN [red |-> 999, green |-> 0, blue |-> 500]
    ELSE [red |-> 5 * i, green |-> 7, blue |-> 250 * i]

\* The color tables: none, or the colors of some of the indices.
ColorTables ==
    {None} \cup {Some([i \in D |-> ColorOf(i)]) : D \in SUBSET (1..MaxColorIdx)}

\* The palettes: none, or one with a range that is the default, narrower,
\* empty or reversed.
Ranges == {<<0, 999>>, <<0, 255>>, <<5, 10>>, <<10, 10>>, <<10, 5>>}

Palettes == {None} \cup {Some([entries |-> 2, range |-> r]) : r \in Ranges}

\* The per-thread color tables: none, or an index for some of the threads.
ThreadColors ==
    {None} \cup {Some(f) : f \in UNION {[D -> 1..(MaxColorIdx + 1)] :
                                          D \in SUBSET Threads}}

\* A [WARP] or [WEFT] record with the base color c (None for no Color field).
ThreadRecord(c) ==
    [threads |-> 2, color |-> c, symbol |-> None, symbol_number |-> None,
     units |-> None, spacing |-> None, thickness |-> None, spacing_zoom |-> None,
     thickness_zoom |-> None]

\* The records: none, one without a base color, one with a base color index.
ThreadRecords ==
    {None, Some(ThreadRecord(None))}
        \cup {Some(ThreadRecord(Some([idx |-> i, alt |-> None]))) :
                i \in 1..(MaxColorIdx + 1)}

\* What the other axis of the document holds while one axis is varied.
OtherAxis ==
    { [colors |-> None, record |-> None],
      [colors |-> Some([i \in Threads |-> 1]),
       record |-> Some(ThreadRecord(Some([idx |-> 2, alt |-> None])))],
      [colors |-> Some([i \in Threads |-> 2]),
       record |-> Some(ThreadRecord(Some([idx |-> 1, alt |-> None])))] }

\* A document built through the public fields of Wif: a color table, a
\* palette, every per-thread table and record on one axis, and one of the
\* settings above on the other.
InitColor ==
    /\ \E ct \in ColorTables, cp \in Palettes, tc \in ThreadColors,
          tr \in ThreadRecords, o \in OtherAxis, warp_varied \in BOOLEAN :
            wif = Some([EmptyWif(Header0) EXCEPT
                        !.color_table = ct,
                        !.color_palette = cp,
                        !.warp_colors = IF warp_varied THEN tc ELSE o.colors,
                        !.warp = IF warp_varied THEN tr ELSE o.record,
                        !.weft_colors = IF warp_varied THEN o.colors ELSE tc,
                        !.weft = IF warp_varied THEN o.record ELSE tr])
    /\ ini = None
    /\ before = None
    /\ res = None
    /\ steps = None
    /\ out = None
    /\ res2 = None
    /\ query = None
    /\ pc = "built"

\* A call of Wif::warp_color.
WarpColor ==
    /\ pc = "built"
    /\ \E i \in 1..(MaxThread + 1) :
        query' = [op |-> "warp_color", arg |-> i,
                  outcome |-> Returned(warp_color(wif[1], i))]
    /\ pc' = "queried"
    /\ UNCHANGED <<ini, wif, before, res, steps, out, res2>>

\* A call of Wif::weft_color.
WeftColor ==
    /\ pc = "built"
    /\ \E i \in 1..(MaxThread + 1) :
        query' = [op |-> "weft_color", arg |-> i,
                  outcome |-> Returned(weft_color(wif[1], i))]
    /\ pc' = "queried"
    /\ UNCHANGED <<ini, wif, before, res, steps, out, res2>>

\* A call of Wif::warp_color_u8.
WarpColorU8 ==
    /\ pc = "built"
    /\ \E i \in 1..(MaxThread + 1) :
        \E o \in warp_color_u8(wif[1], i) :
            query' = [op |-> "warp_color_u8", arg |-> i, outcome |-> o]
    /\ pc' = "queried"
    /\ UNCHANGED <<ini, wif, before, res, steps, out, res2>>

\* A call of Wif::weft_color_u8.
WeftColorU8 ==
    /\ pc = "built"
    /\ \E i \in 1..(MaxThread + 1) :
        \E o \in weft_color_u8(wif[1], i) :
            query' = [op |-> "weft_color_u8", arg |-> i, outcome |-> o]
    /\ pc' = "queried"
    /\ UNCHANGED <<ini, wif, before, res, steps, out, res2>>

NextColor == WarpColor \/ WeftColor \/ WarpColorU8 \/ WeftColorU8

SpecColor == InitColor /\ [][NextColor]_vars

-----------------------------------------------------------------------------
(* The interlacement query on a document: SpecCell                         *)

\* A document built through the public fields of Wif, with any liftplan over
\* the rows and any threading over the threads within the bounds, or without.
InitCell ==
    /\ \E L \in {None} \cup {Some(l) : l \in SetTables(Rows, Shafts)},
          H \in {None} \cup {Some(h) : h \in SetTables(Threads, Shafts)} :
            wif = Some([EmptyWif(Header0) EXCEPT !.liftplan = L, !.threading = H])
    /\ ini = None
    /\ before = None
    /\ res = None
    /\ steps = None
    /\ out = None
    /\ res2 = None
    /\ query = None
    /\ pc = "built"

\* A call of Wif::warp_or_weft, on a warp and a weft of the tables or beyond.
WarpOrWeft ==
    /\ pc = "built"
    /\ \E warp \in 1..(MaxThread + 1), weft \in 1..(MaxRow + 1) :
        query' = [op |-> "warp_or_weft", warp |-> warp, weft |-> weft,
                  outcome |-> warp_or_weft(wif[1], warp, weft)]
    /\ pc' = "classified"
    /\ UNCHANGED <<ini, wif, before, res, steps, out, res2>>

NextCell == WarpOrWeft

SpecCell == InitCell /\ [][NextCell]_vars

-----------------------------------------------------------------------------
(* The field codec on a text: SpecCodec                                    *)

\* The texts are the words of the boolean codec, every text of up to MaxText
\* characters of the alphabet, and the texts the format gives as examples.
MaxText == 3

Alphabet == {"0", "1", "2", "+", ",", " ", "'", "#", "x"}

CharTexts == UNION {[1..n -> Alphabet] : n \in 0..MaxText}

WordTexts ==
    { <<"true">>, <<"TRUE">>, <<"on">>, <<"Yes">>, <<"false">>, <<"OFF">>,
      <<"No">>, <<"Maybe">> }

ExampleTexts ==
    { <<"1", "0", ",", "2", "0">>, <<"1", ",", "3", ",", "5">>,
      <<" ", "1", ",", "0", "2", ",", "3">> }

\* The field types of the codec, with integers for elements.
CodecTypes ==
    { T_bool, T_u32, T_Pair(T_u32), T_Vec(T_u32), T_BTreeSet(T_u32), T_Color,
      T_BaseColor, T_Symbol }

CodecTexts(t) ==
    CharTexts \cup ExampleTexts \cup (IF t = T_bool THEN WordTexts ELSE {})

\* A raw text and the type it is to be read as.
InitCodec ==
    /\ \E t \in CodecTypes : \E s \in CodecTexts(t) :
            query = [op |-> "codec", ty |-> t, text |-> s]
    /\ ini = None
    /\ wif = None
    /\ before = None
    /\ res = None
    /\ steps = None
    /\ out = None
    /\ res2 = None
    /\ pc = "text"

\* WifParse::parse on the text.
Decode ==
    /\ pc = "text"
    /\ res' = parse_value(query.ty, query.text)
    /\ pc' = "decoded"
    /\ UNCHANGED <<ini, wif, before, steps, out, res2, query>>

\* WifParse::unparse on the value parse returned.
Encode ==
    /\ pc = "decoded"
    /\ res.ok
    /\ out' = unparse(query.ty, res.val)
    /\ pc' = "encoded"
    /\ UNCHANGED <<ini, wif, before, res, steps, res2, query>>

NextCodec == Decode \/ Encode

SpecCodec == InitCodec /\ [][NextCodec]_vars

-----------------------------------------------------------------------------
(* The raw maps parse is run on: Spec                                      *)

\* Texts that decode as the type t (canonical and not), and texts that do
\* not.  Every text decodes as a String.
GoodTexts(t) ==
    CASE t.k = "String" -> << <<"abc">>, <<>> >>
      [] t.k = "NaiveDate" -> << <<"April 20, 1997">>, <<"November 05, 2023">> >>
      [] t.k \in IntegerKinds -> << <<"1">>, <<"+", "2">>, <<"0", "7">> >>
      [] t.k = "f64" -> << <<"2">>, <<"1", ".", "5", "0">>, <<"-", ".", "5">> >>
      [] t.k = "bool" -> << <<"true">>, <<"Yes">>, <<"0">> >>
      [] t.k = "Color" -> << <<"9", "9", "9", ",", "0", ",", "5", "0", "0">>,
                             <<"1", ",", " ", "2", ",", " ", "3">> >>
      [] t.k = "BaseColor" -> << <<"1">>, <<"0", "2">> >>
      [] t.k = "Pair" -> << <<"0", ",", "9", "9", "9">>, <<"+", "5", ",", "1", "0">> >>
      [] t.k = "BTreeSet" -> << <<"1">>, <<"2", ",", "1">>, <<"1", ",", "1">> >>

BadTexts(t) ==
    CASE t.k = "String" -> {}
      [] t.k = "NaiveDate" -> {<<"20/04/1997">>}
      [] t.k \in IntegerKinds -> {<<"x">>, <<>>, <<"-", "1">>}
      [] t.k = "f64" -> {<<"x">>, <<".">>}
      [] t.k = "bool" -> {<<"Maybe">>, <<"2">>}
      [] t.k = "Color" -> {<<"1", ",", "2">>, <<"1", ",", "x", ",", "3">>}
      [] t.k = "BaseColor" -> {<<"1", ",", "2", ",", "3", ",", "4">>}
      [] t.k = "Pair" -> {<<"1">>, <<>>, <<"1", ",", "x">>}
      [] t.k = "BTreeSet" -> {<<>>, <<"1", ",", "x">>, <<"1", ",", " ", "2">>}

FirstGood(t) == GoodTexts(t)[1]

LastGood(t) == GoodTexts(t)[Len(GoodTexts(t))]

\* Some text that does not decode as t, or one that does when every text does.
SomeBad(t) == IF BadTexts(t) = {} THEN FirstGood(t) ELSE CHOOSE b \in BadTexts(t) : TRUE

\* Bodies of a fields section: the required fields only, every field, every
\* field with a text that does not decode, and the optional fields only.
FieldBodies(d) ==
    LET F == {d.fields[i] : i \in DOMAIN d.fields}
    IN { [k \in {lower(f.key) : f \in {g \in F : g.req}} |->
            Some(FirstGood((CHOOSE f \in F : lower(f.key) = k).ty))],
         [k \in {lower(f.key) : f \in F} |->
            Some(LastGood((CHOOSE f \in F : lower(f.key) = k).ty))],
         [k \in {lower(f.key) : f \in F} |->
            Some(SomeBad((CHOOSE f \in F : lower(f.key) = k).ty))],
         [k \in {lower(f.key) : f \in {g \in F : ~g.req}} |->
            Some(LastGood((CHOOSE f \in F : lower(f.key) = k).ty))] }

\* Bodies of a table section: one entry; three entries, one of them without a
\* value; an entry whose key is no number; an entry whose value does not decode.
TableBodies(d) ==
    { (<<"1">> :> Some(FirstGood(d.value))),
      (<<"0", "2">> :> Some(LastGood(d.value))) @@ (<<"3">> :> Some(FirstGood(d.value)))
          @@ (<<"x">> :> None),
      (<<"4">> :> None),
      (<<"x">> :> Some(FirstGood(d.value))) }
    \cup {(<<"1">> :> Some(b)) : b \in BadTexts(d.value)}

Bodies(d) == IF d.kind = "table" THEN TableBodies(d) ELSE FieldBodies(d)

\* The [WIF] sections of the inputs: complete, with the optional field, without
\* a required field, with a date that is none.
HeaderOk ==
    ("version" :> Some(<<"1.1">>)) @@ ("date" :> Some(<<"April 20, 1997">>))
        @@ ("developers" :> Some(<<"dev">>)) @@ ("source program" :> Some(<<"prog">>))

Headers ==
    { HeaderOk,
      ("source version" :> Some(<<"2">>)) @@ HeaderOk,
      [k \in {"version", "date", "source program"} |-> HeaderOk[k]],
      [HeaderOk EXCEPT !["date"] = Some(<<"20/04/1997">>)] }

\* The texts of a CONTENTS flag.
FlagTexts ==
    { <<"true">>, <<"TRUE">>, <<"on">>, <<"Yes">>, <<"1">>,
      <<"false">>, <<"OFF">>, <<"No">>, <<"0">>, <<"Maybe">>, <<"2">>, <<>> }

\* The entry of a section in CONTENTS: no entry (None), a key without a value
\* (Some(None)), or a key with a text.
FlagEntries == {None, Some(None)} \cup {Some(Some(t)) : t \in FlagTexts}

\* A [CONTENTS] section with the entry e for the section named n.
Contents1(n, e) == IF IsNone(e) THEN <<>> ELSE (lower(n) :> e[1])

\* One section and its flag: every section of the format, every flag entry,
\* every body of the section or no such section in the text.
GateInputs ==
    UNION {
        LET d == WifSection[ReadOrder[i].section]
        IN { ("wif" :> HeaderOk) @@ ("contents" :> Contents1(d.NAME, e)) @@ b :
                e \in FlagEntries,
                b \in {<<>>} \cup {(lower(d.NAME) :> body) : body \in Bodies(d)} }
        : i \in DOMAIN ReadOrder}

\* Bodies of [TREADLING], [TIEUP] and [LIFTPLAN]: sets of numbers under the
\* keys 1 and 2, and a section whose only entry has no value.
LiftBodies ==
    { (<<"1">> :> None),
      (<<"1">> :> Some(<<"1">>)),
      (<<"1">> :> Some(<<"2">>)),
      (<<"1">> :> Some(<<"2", ",", "1">>)),
      (<<"2">> :> Some(<<"1">>)),
      (<<"1">> :> Some(<<"1">>)) @@ (<<"2">> :> Some(<<"2">>)) }

\* A table section of the liftplan family: not flagged, flagged and not in the
\* text, or flagged with one of the bodies.
LiftChoices(n) ==
    { [flags |-> <<>>, body |-> <<>>],
      [flags |-> (lower(n) :> Some(<<"true">>)), body |-> <<>>] }
    \cup { [flags |-> (lower(n) :> Some(<<"true">>)), body |-> (lower(n) :> b)] :
            b \in LiftBodies }

\* Documents with some of treadling, tieup and liftplan.
LiftInputs ==
    { ("wif" :> HeaderOk)
        @@ ("contents" :> (t.flags @@ u.flags @@ l.flags))
        @@ t.body @@ u.body @@ l.body :
        t \in LiftChoices(sections.TREADLING),
        u \in LiftChoices(sections.TIEUP),
        l \in LiftChoices(sections.LIFTPLAN) }

\* The keys and the value choices of the entries of the key-typing family: a
\* key that is a number or not, a value that is absent, decodes or does not.
KeyPool == { <<"1">>, <<"0", "2">>, <<"+", "1">>, <<"x">>, <<"-", "1">> }

MaxEntries == 3

KeySections == {"Tieup", "ColorTable", "Notes"}

ValueChoices(t) ==
    {None, Some(FirstGood(t))} \cup {Some(b) : b \in {SomeBad(t)}}

\* One flagged table section with up to MaxEntries entries.
KeyInputs ==
    UNION {
        LET d == WifSection[x]
        IN { ("wif" :> HeaderOk)
                @@ ("contents" :> (lower(d.NAME) :> Some(<<"true">>)))
                @@ (lower(d.NAME) :> body) :
                body \in UNION {[D -> ValueChoices(d.value)] :
                                D \in {E \in SUBSET KeyPool :
                                        Cardinality(E) <= MaxEntries}} }
        : x \in KeySections}

\* The headers, each before a flagged section that is well formed, is not in
\* the text, or does not decode; and a text with no [WIF] section.
HeaderInputs ==
    { ("wif" :> h) @@ ("contents" :> ("tieup" :> Some(<<"1">>))) @@ b :
        h \in Headers,
        b \in { <<>>, ("tieup" :> (<<"1">> :> Some(<<"1">>))),
                ("tieup" :> (<<"1">> :> Some(<<"x">>))) } }
    \cup { ("contents" :> ("tieup" :> Some(<<"1">>))) }

\* The entry of one field in the body of a fields section: no entry (None), a
\* key without a value (Some(None)), or a key with a text that decodes or not.
FieldEntries(t) ==
    {None, Some(None)} \cup {Some(Some(x)) : x \in BadTexts(t) \cup {LastGood(t)}}

\* A body of the fields section d in which the field j has the entry e and
\* every other field a text that decodes.
OneFieldBody(d, j, e) ==
    [k \in {lower(d.fields[i].key) :
                i \in (DOMAIN d.fields) \ (IF IsNone(e) THEN {j} ELSE {})} |->
        IF k = lower(d.fields[j].key) THEN e[1]
        ELSE Some(FirstGood(
                d.fields[CHOOSE i \in DOMAIN d.fields : lower(d.fields[i].key) = k].ty))]

OneFieldBodies(d) ==
    UNION {{OneFieldBody(d, j, e) : e \in FieldEntries(d.fields[j].ty)} :
            j \in DOMAIN d.fields}

\* Every fields section of the format, the header too, with one field at a
\* time left out, without a value, not decoding, or decoding.
FieldInputs ==
    {("wif" :> b) : b \in OneFieldBodies(WifSection.Wif)}
    \cup UNION {
        { ("wif" :> HeaderOk)
            @@ ("contents" :> (lower(d.NAME) :> Some(<<"true">>)))
            @@ (lower(d.NAME) :> b) : b \in OneFieldBodies(d) }
        : d \in {WifSection[ReadOrder[i].section] :
                    i \in {n \in DOMAIN ReadOrder :
                            WifSection[ReadOrder[n].section].kind = "fields"}}}

Inputs == GateInputs \cup LiftInputs \cup KeyInputs \cup HeaderInputs \cup FieldInputs

Init ==
    /\ ini \in {Some(m) : m \in Inputs}
    /\ wif = None
    /\ before = None
    /\ res = None
    /\ steps = None
    /\ out = None
    /\ res2 = None
    /\ query = None
    /\ pc = "start"

\* A call of parse on the text of the raw map.
Parse ==
    /\ pc = "start"
    /\ \E x \in parse_runs(ini[1]) :
        /\ res' = x.result
        /\ steps' = x.steps
        /\ before' = x.assembled
        /\ wif' = IF x.result.ok THEN Some(x.result.val) ELSE None
    /\ pc' = "parsed"
    /\ UNCHANGED <<ini, out, res2, query>>

\* A call of Wif::write on the document parse returned.
Write ==
    /\ pc = "parsed"
    /\ res.ok
    /\ out' = Some(write(wif[1]))
    /\ pc' = "written"
    /\ UNCHANGED <<ini, wif, before, res, steps, res2, query>>

\* A call of parse on the text Wif::write produced.
Reparse ==
    /\ pc = "written"
    /\ \E r \in parse(reread(out[1])) : res2' = r
    /\ pc' = "reparsed"
    /\ UNCHANGED <<ini, wif, before, res, steps, out, query>>

Next == Parse \/ Write \/ Reparse

Spec == Init /\ [][Next]_vars

-----------------------------------------------------------------------------
(* Properties                                                              *)

\* Whether the sequence q holds x.
Holds(q, x) == \E j \in DOMAIN q : q[j] = x

\* The table the format describes for a treadling T and a tieup U: each row of
\* T with the shafts of the treadles of the row that U ties.
Composed(T, U) == [w \in DOMAIN T |-> UNION {U[t] : t \in T[w] \cap DOMAIN U}]

\* The CONTENTS entry of a section in a raw map, and the flag texts of the
\* inputs that mean true and false.
FlagEntry(m, name) ==
    IF "contents" \in DOMAIN m /\ lower(name) \in DOMAIN m["contents"]
    THEN m["contents"][lower(name)]
    ELSE None

TrueTexts == {<<"true">>, <<"TRUE">>, <<"on">>, <<"Yes">>, <<"1">>}

FalseTexts == {<<"false">>, <<"OFF">>, <<"No">>, <<"0">>}

FlaggedTrue(m, name) ==
    IsSome(FlagEntry(m, name)) /\ FlagEntry(m, name)[1] \in TrueTexts

FlaggedFalse(m, name) ==
    IsNone(FlagEntry(m, name)) \/ FlagEntry(m, name)[1] \in FalseTexts

\* The step of parse an error comes from: the section whose flag or body did
\* not read, or "reconcile" for the liftplan check.
ErrorStep(e) ==
    IF e.kind = "LiftPlanDoesNotMatchTreadling" THEN "reconcile"
    ELSE IF e.section = sections.CONTENTS THEN e.field
    ELSE e.section

\* The place of a step in parse: 0 for the header, then the sections in the
\* order they are read, then the liftplan check.
StepPlace(name) ==
    IF name = sections.WIF THEN 0
    ELSE IF name = "reconcile" THEN Len(ReadOrder) + 1
    ELSE CHOOSE i \in DOMAIN ReadOrder : WifSection[ReadOrder[i].section].NAME = name

\* C1: parsing the text written from a document that parse returned succeeds
\* and gives the same document, field for field and table for table.
C1_RoundTrip ==
    pc = "reparsed" => res2 = Ok(wif[1])

\* C2: for a treadling T and a tieup U that are both present, the composition
\* returns a table whose rows are exactly the rows of T, and a shaft is in the
\* set of a row exactly when U ties it to some treadle of that row; a treadle
\* without a tieup entry adds nothing.
C2_ComposeLaw ==
    (pc = "composed" /\ IsSome(wif[1].treadling) /\ IsSome(wif[1].tieup)) =>
        LET T == wif[1].treadling[1]
            U == wif[1].tieup[1]
            lp == query.outcome
        IN /\ IsSome(lp)
           /\ DOMAIN lp[1] = DOMAIN T
           /\ \A w \in DOMAIN T :
                \A s \in lp[1][w] \cup UNION {U[t] : t \in DOMAIN U} :
                    s \in lp[1][w] <=> \E t \in T[w] : t \in DOMAIN U /\ s \in U[t]

\* A composition of a row that holds a tied and an untied treadle.
C2_Witness ==
    /\ pc = "composed"
    /\ IsSome(wif[1].treadling) /\ IsSome(wif[1].tieup)
    /\ \E w \in DOMAIN wif[1].treadling[1] :
        /\ \E t \in wif[1].treadling[1][w] : t \notin DOMAIN wif[1].tieup[1]
        /\ \E t \in wif[1].treadling[1][w] :
            t \in DOMAIN wif[1].tieup[1] /\ wif[1].tieup[1][t] # {}
        /\ query.outcome[1][w] # {}

\* C3: when parse has read a liftplan L, a treadling T and a tieup U, it fails
\* with LiftPlanDoesNotMatchTreadling if the composition of T and U differs
\* from L in any row (a row of only one of them too), and otherwise succeeds
\* with the liftplan L.
C3_Validation ==
    (pc = "parsed" /\ IsSome(before) /\ IsSome(before[1].liftplan)
        /\ IsSome(before[1].treadling) /\ IsSome(before[1].tieup)) =>
        IF Composed(before[1].treadling[1], before[1].tieup[1]) = before[1].liftplan[1]
        THEN res.ok /\ res.val.liftplan = before[1].liftplan
        ELSE res = Err([kind |-> "LiftPlanDoesNotMatchTreadling"])

\* A parse that read all three tables, the liftplan with a row the
\* composition has not, and failed.
C3_Witness ==
    /\ pc = "parsed"
    /\ IsSome(before)
    /\ IsSome(before[1].liftplan) /\ IsSome(before[1].treadling)
    /\ IsSome(before[1].tieup)
    /\ DOMAIN before[1].liftplan[1] # DOMAIN before[1].treadling[1]
    /\ ~res.ok

\* C4: when the document has a liftplan and not both a treadling and a tieup,
\* build_or_validate_liftplan succeeds and leaves the liftplan as it was.
C4_OnlyLiftplan ==
    (pc = "reconciled" /\ IsSome(before[1].liftplan)
        /\ (IsNone(before[1].treadling) \/ IsNone(before[1].tieup))) =>
        res.ok /\ wif[1].liftplan = before[1].liftplan

\* C5: when the document has no liftplan, build_or_validate_liftplan succeeds;
\* with both a treadling T and a tieup U the liftplan becomes the composition
\* of T and U, and with one of them absent it stays absent.
C5_Synthesis ==
    (pc = "reconciled" /\ IsNone(before[1].liftplan)) =>
        /\ res.ok
        /\ wif[1].liftplan =
            IF IsSome(before[1].treadling) /\ IsSome(before[1].tieup)
            THEN Some(Composed(before[1].treadling[1], before[1].tieup[1]))
            ELSE None

\* C6 as stated: a section other than the header is read exactly when its
\* CONTENTS flag is there and decodes to true; a section with no entry or a
\* false flag is not read, its sub-structure is absent in the result, and no
\* error of parse comes from it.
C6_GatingAsStated ==
    pc = "parsed" =>
        \A i \in DOMAIN ReadOrder :
            LET name == WifSection[ReadOrder[i].section].NAME
            IN /\ Holds(steps, name) => FlaggedTrue(ini[1], name)
               /\ (FlaggedTrue(ini[1], name) /\ ~Holds(steps, name)) =>
                    (~res.ok /\ StepPlace(ErrorStep(res.err)) < i)
               /\ FlaggedFalse(ini[1], name) =>
                    /\ res.ok => res.val[ReadOrder[i].field] = None
                    /\ ~res.ok => ErrorStep(res.err) # name

\* C6: a section other than the header is read exactly when its CONTENTS flag
\* is there and decodes to true (a true flag is not followed only when an
\* earlier step has ended the parse); a section with no entry or a false flag
\* is not read and no error of parse comes from it; its sub-structure is
\* absent in the result, but for the liftplan, which can be present without
\* LIFTPLAN being read when TREADLING was read.
C6_Gating ==
    pc = "parsed" =>
        \A i \in DOMAIN ReadOrder :
            LET name == WifSection[ReadOrder[i].section].NAME
            IN /\ Holds(steps, name) => FlaggedTrue(ini[1], name)
               /\ (FlaggedTrue(ini[1], name) /\ ~Holds(steps, name)) =>
                    (~res.ok /\ StepPlace(ErrorStep(res.err)) < i)
               /\ FlaggedFalse(ini[1], name) =>
                    /\ res.ok =>
                        \/ res.val[ReadOrder[i].field] = None
                        \/ /\ name = sections.LIFTPLAN
                           /\ Holds(steps, sections.TREADLING)
                    /\ ~res.ok => ErrorStep(res.err) # name

\* A parse that succeeded on a text holding a section that is flagged false
\* and whose lines would not decode.
C6_Witness ==
    /\ pc = "parsed"
    /\ res.ok
    /\ \E i \in DOMAIN ReadOrder :
        LET d == WifSection[ReadOrder[i].section]
        IN /\ IsSome(FlagEntry(ini[1], d.NAME))
           /\ FlagEntry(ini[1], d.NAME)[1] \in FalseTexts
           /\ lower(d.NAME) \in DOMAIN ini[1]
           /\ \A r \in read(d, ini[1]) : ~r.ok
           /\ res.val[ReadOrder[i].field] = None

\* C7: when a table section is flagged true and is not in the raw map, parse
\* fails with MissingSection naming the section, unless an earlier step has
\* ended the parse with its own error.
C7_MissingTable ==
    pc = "parsed" =>
        \A i \in DOMAIN ReadOrder :
            LET d == WifSection[ReadOrder[i].section]
            IN (d.kind = "table" /\ FlaggedTrue(ini[1], d.NAME)
                    /\ lower(d.NAME) \notin DOMAIN ini[1]) =>
                /\ ~res.ok
                /\ \/ res.err = [kind |-> "MissingSection", section |-> d.NAME]
                   \/ StepPlace(ErrorStep(res.err)) < i
                /\ Holds(steps, d.NAME) =>
                    res.err = [kind |-> "MissingSection", section |-> d.NAME]

\* A parse that ended with MissingSection for a flagged table.
C7_Witness ==
    /\ pc = "parsed"
    /\ ~res.ok
    /\ res.err.kind = "MissingSection"
    /\ FlaggedTrue(ini[1], res.err.section)
    /\ lower(res.err.section) \notin DOMAIN ini[1]
    /\ steps[Len(steps)] = res.err.section

\* Whether a key text is a non-negative integer: digits, after a '+' or not.
IsNumberKey(k) ==
    /\ Len(k) > 0
    /\ k # <<"+">>
    /\ \A i \in DOMAIN k : k[i] \in Digit \/ (i = 1 /\ k[i] = "+")

\* The keys of a table body that have a value, and those of them that are no
\* numbers.
Valued(body) == {k \in DOMAIN body : IsSome(body[k])}

BadKeys(body) == {k \in Valued(body) : ~IsNumberKey(k)}

\* Whether the text decodes as the value type of the table d.
GoodValue(d, text) == \E j \in DOMAIN GoodTexts(d.value) : GoodTexts(d.value)[j] = text

\* C8: when parse reads a table section in which some entry with a value has a
\* key that is no non-negative integer, and the entries with number keys are
\* valid, it fails with CouldNotParseTableKey carrying the section name and
\* the text of such a key, in whatever order the entries are visited; entries
\* without a value are skipped, so that with valid valued entries only the
\* read does not fail and gives the table of exactly the valued entries.
C8_KeyTyping ==
    pc = "parsed" =>
        \A i \in DOMAIN ReadOrder :
            LET d == WifSection[ReadOrder[i].section]
                body == ini[1][lower(d.NAME)]
            IN (d.kind = "table" /\ Holds(steps, d.NAME)
                    /\ lower(d.NAME) \in DOMAIN ini[1]
                    /\ \A k \in Valued(body) \ BadKeys(body) : GoodValue(d, body[k][1])) =>
                IF BadKeys(body) # {}
                THEN /\ ~res.ok
                     /\ res.err.kind = "CouldNotParseTableKey"
                     /\ res.err.section = d.NAME
                     /\ res.err.key \in BadKeys(body)
                ELSE /\ ~res.ok => ErrorStep(res.err) # d.NAME
                     /\ IsSome(before) =>
                            DOMAIN before[1][ReadOrder[i].field][1]
                                = {from_str_u32(k).val : k \in Valued(body)}

\* A read of a table with a bad key among valid entries and an entry without
\* a value.
C8_Witness ==
    /\ pc = "parsed"
    /\ ~res.ok
    /\ res.err.kind = "CouldNotParseTableKey"
    /\ LET body == ini[1][lower(res.err.section)]
       IN /\ Cardinality(Valued(body) \ BadKeys(body)) >= 1
          /\ Cardinality(BadKeys(body)) >= 1
          /\ Valued(body) # DOMAIN body

\* The per-thread color table and the record of the axis a query is about.
AxisColors(w, op) ==
    IF op \in {"warp_color", "warp_color_u8"} THEN w.warp_colors ELSE w.weft_colors

AxisRecord(w, op) ==
    IF op \in {"warp_color", "warp_color_u8"} THEN w.warp ELSE w.weft

\* The entry of the color table under an index, if there is one.
Entry(w, idx) ==
    IF IsSome(w.color_table) /\ idx \in DOMAIN w.color_table[1]
    THEN Some(w.color_table[1][idx])
    ELSE None

\* The color of the thread i by its own index, and the base color of the axis.
OwnColor(w, op, i) ==
    IF IsSome(AxisColors(w, op)) /\ i \in DOMAIN AxisColors(w, op)[1]
    THEN Entry(w, AxisColors(w, op)[1][i])
    ELSE None

BaseColor(w, op) ==
    IF IsSome(AxisRecord(w, op)) /\ IsSome(AxisRecord(w, op)[1].color)
    THEN Entry(w, AxisRecord(w, op)[1].color[1].idx)
    ELSE None

Resolved(w, op, i) ==
    IF IsSome(OwnColor(w, op, i)) THEN OwnColor(w, op, i) ELSE BaseColor(w, op)

\* C9: warp_color(i) and weft_color(i) return the color-table entry of the
\* index the per-thread color table of the axis gives the thread, when both
\* entries exist; else the color-table entry of the base color of the WARP or
\* WEFT record; and absent only when that is not available either.
C9_ColorFallback ==
    (pc = "queried" /\ query.op \in {"warp_color", "weft_color"}) =>
        /\ ~query.outcome.panicked
        /\ IsSome(OwnColor(wif[1], query.op, query.arg)) =>
                query.outcome.val = OwnColor(wif[1], query.op, query.arg)
        /\ IsNone(OwnColor(wif[1], query.op, query.arg)) =>
                query.outcome.val = BaseColor(wif[1], query.op)
        /\ IsNone(query.outcome.val) => IsNone(BaseColor(wif[1], query.op))

\* A query for a thread whose own index misses the color table and that got
\* the base color of its record.
C9_Witness ==
    /\ pc = "queried"
    /\ query.op = "warp_color"
    /\ IsSome(wif[1].warp_colors)
    /\ query.arg \in DOMAIN wif[1].warp_colors[1]
    /\ IsNone(OwnColor(wif[1], query.op, query.arg))
    /\ IsSome(query.outcome.val)
    /\ query.outcome.val = BaseColor(wif[1], query.op)

\* The range of the palette, (0, 999) without one.
RangeOf(w) == IF IsSome(w.color_palette) THEN w.color_palette[1].range ELSE <<0, 999>>

\* (v - low) / (high - low) * 255, truncated.
Scaled(v, range) == ((v - range[1]) * 255) \div (range[2] - range[1])

Channels(c) == <<c.red, c.green, c.blue>>

\* C10: warp_color_u8 and weft_color_u8 return absent when the color resolves
\* to none; with a range low < high, the palette's or (0, 999) without one,
\* a call that returns maps every channel v with low <= v <= high to
\* trunc((v - low) / (high - low) * 255), which lies in 0..255 and is 0 at low
\* and 255 at high; the call returns when every channel is in the range; and
\* (999, 0, 500) under (0, 999) gives (255, 0, 127).
C10_ByteNormalization ==
    (pc = "queried" /\ query.op \in {"warp_color_u8", "weft_color_u8"}) =>
        LET c == Resolved(wif[1], query.op, query.arg)
            range == RangeOf(wif[1])
            InRange(v) == range[1] <= v /\ v <= range[2]
        IN /\ IsNone(c) => query.outcome = Returned(None)
           /\ (IsSome(c) /\ range[1] < range[2]) =>
                /\ (\A j \in 1..3 : InRange(Channels(c[1])[j])) =>
                        ~query.outcome.panicked
                /\ ~query.outcome.panicked =>
                    /\ IsSome(query.outcome.val)
                    /\ \A j \in 1..3 :
                        LET v == Channels(c[1])[j]
                            b == query.outcome.val[1][j]
                        IN InRange(v) =>
                            /\ b = Scaled(v, range)
                            /\ b \in 0..255
                            /\ v = range[1] => b = 0
                            /\ v = range[2] => b = 255
           /\ (IsSome(c) /\ range = <<0, 999>>
                    /\ c[1] = [red |-> 999, green |-> 0, blue |-> 500]) =>
                query.outcome = Returned(Some(<<255, 0, 127>>))

\* A call under the default range on the color (999, 0, 500).
C10_Witness ==
    /\ pc = "queried"
    /\ query.op = "weft_color_u8"
    /\ IsNone(wif[1].color_palette)
    /\ Resolved(wif[1], query.op, query.arg)
            = Some([red |-> 999, green |-> 0, blue |-> 500])
    /\ query.outcome = Returned(Some(<<255, 0, 127>>))

\* Whether the shafts raised on the weft row and the shafts the warp is
\* threaded on both exist in the document and meet.
ShaftsMeet(w, warp, weft) ==
    /\ IsSome(w.liftplan) /\ weft \in DOMAIN w.liftplan[1]
    /\ IsSome(w.threading) /\ warp \in DOMAIN w.threading[1]
    /\ \E s \in w.liftplan[1][weft] : s \in w.threading[1][warp]

\* C11 as stated: warp_or_weft answers warp-dominant exactly when the shafts of
\* the weft row and of the warp both exist and meet, and weft-dominant in
\* every other case, never absent.
C11_ClassificationAsStated ==
    (pc = "classified" /\ query.op = "warp_or_weft") =>
        query.outcome = IF ShaftsMeet(wif[1], query.warp, query.weft)
                        THEN Some("Warp") ELSE Some("Weft")

\* C11: on a document that has a liftplan and a threading, warp_or_weft
\* answers warp-dominant exactly when the shafts of the weft row and of the
\* warp both exist and meet, and weft-dominant otherwise, a row or a warp
\* without an entry included; on a document without a liftplan or without a
\* threading the answer is absent.
C11_Classification ==
    (pc = "classified" /\ query.op = "warp_or_weft") =>
        query.outcome =
            IF IsNone(wif[1].liftplan) \/ IsNone(wif[1].threading) THEN None
            ELSE IF ShaftsMeet(wif[1], query.warp, query.weft)
                 THEN Some("Warp") ELSE Some("Weft")

C11_Witness ==
    /\ pc = "classified" /\ query.op = "warp_or_weft"
    /\ IsSome(wif[1].liftplan) /\ IsSome(wif[1].threading)
    /\ query.weft \in DOMAIN wif[1].liftplan[1]
    /\ query.warp \in DOMAIN wif[1].threading[1]
    /\ wif[1].liftplan[1][query.weft] # {}
    /\ wif[1].threading[1][query.warp] # {}
    /\ query.outcome = Some("Weft")

\* The flag the written map holds for a section name, None when it holds none.
WrittenFlag(m, name) == map_get(m, sections.CONTENTS, name)

\* C12: in the map Wif::write builds, CONTENTS holds a true flag for a section
\* name exactly when the document has the sub-structure of that section,
\* whatever the flags of the text the document was parsed from; the header
\* section is written and has no flag.
C12_FlagsRederived ==
    pc \in {"written", "reparsed"} =>
        /\ \A i \in DOMAIN WriteOrder :
              LET name == WifSection[WriteOrder[i].section].NAME
              IN IF IsSome(wif[1][WriteOrder[i].field])
                 THEN WrittenFlag(out[1], name) = Some(<<"true">>)
                 ELSE WrittenFlag(out[1], name) = None
        /\ sections.WIF \in DOMAIN out[1]
        /\ WrittenFlag(out[1], sections.WIF) = None

\* A written document whose liftplan flag is true though the text it was
\* parsed from has no such flag.
C12_Witness ==
    /\ pc = "written"
    /\ IsNone(FlagEntry(ini[1], sections.LIFTPLAN))
    /\ WrittenFlag(out[1], sections.LIFTPLAN) = Some(<<"true">>)
    /\ WrittenFlag(out[1], sections.TREADLING) = Some(<<"true">>)
    /\ WrittenFlag(out[1], sections.TIEUP) = Some(<<"true">>)
    /\ WrittenFlag(out[1], sections.THREADING) = None

\* The text the raw map m holds for the field f of the section d, None when
\* the section, the key or the value is not there.
FieldText(m, d, f) ==
    IF lower(d.NAME) \in DOMAIN m /\ lower(f.key) \in DOMAIN m[lower(d.NAME)]
    THEN m[lower(d.NAME)][lower(f.key)]
    ELSE None

\* A field that stops the read of its section, and the error it stops with.
FieldFails(m, d, f) ==
    IF IsNone(FieldText(m, d, f)) THEN f.req
    ELSE ~parse_value(f.ty, FieldText(m, d, f)[1]).ok

FieldError(m, d, f) ==
    IF IsNone(FieldText(m, d, f))
    THEN [kind |-> "MissingRequiredField", section |-> d.NAME, field |-> f.key]
    ELSE [kind |-> "FieldParseError", section |-> d.NAME, field |-> f.key,
          err |-> parse_value(f.ty, FieldText(m, d, f)[1]).err]

\* The sections of fixed shape and the field of the document each is read to.
FixedShape ==
    {[d |-> WifSection.Wif, field |-> "wif_header"]}
        \cup {[d |-> WifSection[ReadOrder[i].section], field |-> ReadOrder[i].field] :
                i \in {n \in DOMAIN ReadOrder :
                        WifSection[ReadOrder[n].section].kind = "fields"}}

\* C13: when parse reads a section of fixed shape, the first of its fields, in
\* their order, that is required and has no text, or has a text that does not
\* decode (required or optional), ends parse with MissingRequiredField naming
\* the section and the field, or with FieldParseError carrying the section,
\* the field and the error of the codec; with no such field the section gives
\* no error and an optional field without a text is None in the document.
C13_FixedShapeRead ==
    pc = "parsed" =>
        \A x \in FixedShape :
            Holds(steps, x.d.NAME) =>
                IF \E j \in DOMAIN x.d.fields : FieldFails(ini[1], x.d, x.d.fields[j])
                THEN \E j \in DOMAIN x.d.fields :
                        /\ FieldFails(ini[1], x.d, x.d.fields[j])
                        /\ \A i \in 1..(j - 1) : ~FieldFails(ini[1], x.d, x.d.fields[i])
                        /\ res = Err(FieldError(ini[1], x.d, x.d.fields[j]))
                ELSE /\ ~res.ok => ErrorStep(res.err) # x.d.NAME
                     /\ IsSome(before) =>
                            \A j \in DOMAIN x.d.fields :
                                LET f == x.d.fields[j]
                                    v == IF x.field = "wif_header"
                                         THEN before[1].wif_header[f.name]
                                         ELSE before[1][x.field][1][f.name]
                                IN IF IsNone(FieldText(ini[1], x.d, f)) THEN v = None
                                   ELSE IF f.req
                                   THEN v = parse_value(f.ty, FieldText(ini[1], x.d, f)[1]).val
                                   ELSE v = Some(parse_value(f.ty, FieldText(ini[1], x.d, f)[1]).val)

\* A parse ended by an optional field of [WEAVING] whose text is no boolean.
C13_Witness ==
    /\ pc = "parsed"
    /\ Holds(steps, sections.WEAVING)
    /\ res = Err([kind |-> "FieldParseError", section |-> sections.WEAVING,
                  field |-> "Rising Shed",
                  err |-> [kind |-> "ExpectedBool", saw |-> <<"Maybe">>]])

\* C14: for every field type and every text that decodes, encoding the decoded
\* value gives the text back, character for character.
C14_CodecRoundTrip ==
    pc = "encoded" => out = Some(query.text)

\* The place of the first comma of a text.
CommaAt(s) == CHOOSE i \in DOMAIN s : s[i] = "," /\ \A j \in 1..(i - 1) : s[j] # ","

\* The text "10,20".
TenTwenty == <<"1", "0", ",", "2", "0">>

\* C15: a pair is decoded from the text before and the text after the first
\* comma, each decoded on its own, the first error being the result; a text
\* without a comma, the empty text too, fails with ExpectedPair carrying the
\* text; "10,20" decodes to the pair (10, 20).
C15_PairDecoding ==
    (pc \in {"decoded", "encoded"} /\ query.ty = T_Pair(T_u32)) =>
        /\ IF \A i \in DOMAIN query.text : query.text[i] # ","
           THEN res = Err([kind |-> "ExpectedPair", saw |-> query.text])
           ELSE LET i == CommaAt(query.text)
                    a == from_str_u32(SubSeq(query.text, 1, i - 1))
                    b == from_str_u32(SubSeq(query.text, i + 1, Len(query.text)))
                IN res = IF ~a.ok THEN a ELSE IF ~b.ok THEN b
                         ELSE Ok(<<a.val, b.val>>)
        /\ query.text = TenTwenty => res = Ok(<<10, 20>>)
        /\ query.text = <<>> => res = Err([kind |-> "ExpectedPair", saw |-> <<>>])

C15_Witness ==
    /\ pc = "decoded" /\ query.ty = T_Pair(T_u32)
    /\ query.text = TenTwenty
    /\ res = Ok(<<10, 20>>)

\* C16: build_or_validate_liftplan changes no part of the document but the
\* liftplan, and the liftplan only when it was absent; the treadling and the
\* tieup stay as they were; when it returns an error the document is as it
\* was.
C16_ReconcileFrame ==
    pc = "reconciled" =>
        /\ \A f \in (DOMAIN wif[1]) \ {"liftplan"} : wif[1][f] = before[1][f]
        /\ wif[1].treadling = before[1].treadling
        /\ wif[1].tieup = before[1].tieup
        /\ wif[1].liftplan # before[1].liftplan => IsNone(before[1].liftplan)
        /\ ~res.ok => wif = before

\* A reconciliation that gave the document a liftplan with a shaft in it.
C16_Witness ==
    /\ pc = "reconciled"
    /\ res.ok
    /\ IsNone(before[1].liftplan)
    /\ IsSome(wif[1].liftplan)
    /\ \E r \in DOMAIN wif[1].liftplan[1] : wif[1].liftplan[1][r] # {}

\* C19: on a document build_or_validate_liftplan returned Ok on, a second call
\* returns Ok and leaves the document, the liftplan too, as it was.
C19_ReconcileIdempotent ==
    pc = "reconciled again" =>
        /\ res2 = Ok(<<>>)
        /\ wif = before

\* A second call on a document whose liftplan the first call had synthesized.
C19_Witness ==
    /\ pc = "reconciled again"
    /\ IsNone(query.first[1].liftplan)
    /\ IsSome(wif[1].liftplan)
    /\ \E r \in DOMAIN wif[1].liftplan[1] : wif[1].liftplan[1][r] # {}
    /\ res2.ok

\* The steps of parse by their place, and whether the step at a place fails
\* on the raw map m: the header when a field of it does not read, a section
\* when its flag has a text that is no boolean or when it is flagged true and
\* does not read.
StepSection(j) == IF j = 0 THEN WifSection.Wif ELSE WifSection[ReadOrder[j].section]

StepFails(m, j) ==
    IF j = 0 THEN \E r \in read(WifSection.Wif, m) : ~r.ok
    ELSE \/ /\ IsSome(FlagEntry(m, StepSection(j).NAME))
            /\ FlagEntry(m, StepSection(j).NAME)[1] \notin TrueTexts \cup FalseTexts
         \/ /\ FlaggedTrue(m, StepSection(j).NAME)
            /\ \E r \in read(StepSection(j), m) : ~r.ok

\* C17: parse returns a document with every part, or one error and no
\* document; it reads the header first, flagged or not, then the flagged
\* sections in their fixed order, and reconciles the liftplan last; the error
\* it returns is that of the first step that fails, and
\* LiftPlanDoesNotMatchTreadling is returned only when no step before the
\* reconciliation fails and every flagged section was read.
C17_AssemblyOrder ==
    pc = "parsed" =>
        /\ IF res.ok
           THEN /\ wif = Some(res.val)
                /\ DOMAIN res.val = OptionalFields \cup {"wif_header"}
                /\ \A j \in 0..Len(ReadOrder) : ~StepFails(ini[1], j)
           ELSE wif = None
        /\ Len(steps) > 0 /\ steps[1] = sections.WIF
        /\ IsNone(FlagEntry(ini[1], sections.WIF))
        /\ \A a, b \in DOMAIN steps : a < b => StepPlace(steps[a]) < StepPlace(steps[b])
        /\ Holds(steps, "reconcile") <=>
                (res.ok \/ res.err.kind = "LiftPlanDoesNotMatchTreadling")
        /\ Holds(steps, "reconcile") =>
                \A j \in DOMAIN ReadOrder :
                    FlaggedTrue(ini[1], StepSection(j).NAME)
                        <=> Holds(steps, StepSection(j).NAME)
        /\ ~res.ok =>
                IF res.err.kind = "LiftPlanDoesNotMatchTreadling"
                THEN \A j \in 0..Len(ReadOrder) : ~StepFails(ini[1], j)
                ELSE /\ StepFails(ini[1], StepPlace(ErrorStep(res.err)))
                     /\ \A j \in 0..(StepPlace(ErrorStep(res.err)) - 1) :
                            ~StepFails(ini[1], j)
                     /\ \A a \in DOMAIN steps :
                            StepPlace(steps[a]) <= StepPlace(ErrorStep(res.err))

\* A parse ended by the first of two sections that do not read.
C17_Witness ==
    /\ pc = "parsed"
    /\ ~res.ok
    /\ res.err.kind # "LiftPlanDoesNotMatchTreadling"
    /\ StepPlace(ErrorStep(res.err)) > 0
    /\ \E j \in DOMAIN ReadOrder :
            j > StepPlace(ErrorStep(res.err)) /\ StepFails(ini[1], j)

\* C18: every table section the map Wif::write built flags true in CONTENTS is
\* a section of that map, and parsing the written text does not fail with
\* MissingSection.
C18_FlagWithBody ==
    /\ pc \in {"written", "reparsed"} =>
            \A name \in TableNames :
                WrittenFlag(out[1], name) = Some(<<"true">>) => name \in DOMAIN out[1]
    /\ pc = "reparsed" => (res2.ok \/ res2.err.kind # "MissingSection")

====
